---- MODULE Spec2Model ----
(***************************************************************************)
(* A model of the parsing helpers of ie-utils (src/utils/__init__.py):     *)
(* InvoiceType and TxerpadParseUtils.parse_country, parse_money,           *)
(* parse_invoice_period and parse_tax; and of DynamoDBUtils.log,           *)
(* log_wrapper, update_event, update_item and put_item, and of             *)
(* create_cloud_watch_cron_rule and delete_cloud_watch_cron_rule           *)
(* (src/ie_utils/__init__.py).                                             *)
(*                                                                         *)
(* Python strings are modelled as sequences of one-character strings, so   *)
(* that replace, split, lower, regular-expression matching and formatting  *)
(* are computed character by character as the code computes them.          *)
(* A call's outcome is a record [kind, val]: kind "value" (val is what is  *)
(* returned), "none" (the call returns None) or "raise" (val names the     *)
(* exception that propagates to the caller).                               *)
(***************************************************************************)
EXTENDS Integers, Sequences, FiniteSets, TLC

VARIABLES
    op,          \* the operation invoked
    args,        \* its arguments
    pc,          \* position of the invocation: "call", "read_year", "done"
    ret,         \* its outcome
    today,       \* the clock: datetime.datetime.today(), as [year, month]
    curr_month,  \* local of parse_invoice_period (0: not read)
    curr_year,   \* local of parse_invoice_period (0: not read)
    ticks,       \* how many times the clock has moved on during the invocation
    threads,     \* invocations running side by side: thread -> its invocation
    calls,       \* the calls the operation has made on its collaborators, in order
    items,       \* DynamoDB: <<table, identifier>> -> the item's attributes
    wrapped,     \* the log_wrapper calls made on obj.name, innermost first
    rules,       \* CloudWatch Events: the rules
    targets,     \* CloudWatch Events: the targets of the rules
    permissions, \* Lambda: the statements of the functions' resource policies
    uuids,       \* how many uuid.uuid4() values have been drawn
    running,     \* the calls under way: caller -> the call and where it is
    dicts,       \* the dicts passed as lambda_json_input: name -> [has_body, body]
    tracked,     \* the create call whose round trip is followed: [state, rule, ...]
    shadow       \* what the clients hold by the calls of the other calls alone

aws == <<calls, items, wrapped, rules, targets, permissions, uuids, running, dicts,
        tracked, shadow>>

vars == <<op, args, pc, ret, today, curr_month, curr_year, ticks, threads, aws>>

(***************************************************************************)
(* Outcomes.                                                               *)
(***************************************************************************)
Pending == [kind |-> "pending", val |-> "pending"]
None == [kind |-> "none", val |-> "None"]
Value(v) == [kind |-> "value", val |-> v]
Raise(e) == [kind |-> "raise", val |-> e]

(***************************************************************************)
(* Characters and strings.                                                 *)
(***************************************************************************)
DigitChars == <<"0", "1", "2", "3", "4", "5", "6", "7", "8", "9">>

IsDigit(c) == \E i \in 1..10 : DigitChars[i] = c

DigitVal(c) == (CHOOSE i \in 1..10 : DigitChars[i] = c) - 1

Pow10(n) == IF n <= 0 THEN 1 ELSE LET p[i \in 0..n] == IF i = 0 THEN 1 ELSE 10 * p[i - 1] IN p[n]

\* The number a non-empty sequence of decimal digits denotes (leading zeros allowed).
DigitsToNat(s) ==
    LET v[i \in 0..Len(s)] == IF i = 0 THEN 0 ELSE 10 * v[i - 1] + DigitVal(s[i])
    IN v[Len(s)]

\* '%s' % n for an integer n: its decimal digits, with '-' for a negative one.
NatToStr(n) ==
    LET f[k \in 0..n] == IF k < 10 THEN <<DigitChars[k + 1]>>
                         ELSE Append(f[k \div 10], DigitChars[(k % 10) + 1])
    IN f[n]

IntToStr(n) == IF n < 0 THEN <<"-">> \o NatToStr(-n) ELSE NatToStr(n)

\* str.replace(old, new) for a one-character old; new is a string (possibly empty).
Replace(s, old, new) ==
    LET r[i \in 0..Len(s)] ==
            IF i = 0 THEN <<>>
            ELSE r[i - 1] \o (IF s[i] = old THEN new ELSE <<s[i]>>)
    IN r[Len(s)]

\* str.split(sep) for a one-character sep: always at least one segment.
Split(s, sep) ==
    LET r[i \in 0..Len(s)] ==
            IF i = 0 THEN <<<<>>>>
            ELSE IF s[i] = sep THEN Append(r[i - 1], <<>>)
            ELSE [r[i - 1] EXCEPT ![Len(r[i - 1])] = Append(@, s[i])]
    IN r[Len(s)]

\* ''.join(segments)
Join(segs) ==
    LET r[i \in 0..Len(segs)] == IF i = 0 THEN <<>> ELSE r[i - 1] \o segs[i]
    IN r[Len(segs)]

\* int(text) for a text of the model's alphabet: decimal digits only, else ValueError.
StrToInt(s) ==
    IF Len(s) > 0 /\ \A i \in 1..Len(s) : IsDigit(s[i])
    THEN Value(DigitsToNat(s))
    ELSE Raise("ValueError")

(***************************************************************************)
(* decimal.Decimal: a value is [coef, exp], the number coef * 10^exp, as   *)
(* Decimal.as_tuple() gives it.  Two decimals are equal (==) when they     *)
(* denote the same number, whatever their exponents.                       *)
(***************************************************************************)
CountOf(s, c) == Cardinality({i \in 1..Len(s) : s[i] = c})

\* Decimal(text) for a text of digits and dots: [digits][.[digits]] with at least
\* one digit, anything else is decimal.InvalidOperation.
DecimalOfText(text) ==
    IF /\ \A i \in 1..Len(text) : IsDigit(text[i]) \/ text[i] = "."
       /\ CountOf(text, ".") <= 1
       /\ \E i \in 1..Len(text) : IsDigit(text[i])
    THEN LET parts == Split(text, ".")
             frac == IF Len(parts) > 1 THEN parts[2] ELSE <<>>
         IN Value([coef |-> DigitsToNat(parts[1] \o frac), exp |-> -Len(frac)])
    ELSE Raise("InvalidOperation")

\* Decimal(n) for an integer n.
DecimalOfInt(n) == Value([coef |-> n, exp |-> 0])

Pow5(n) == IF n <= 0 THEN 1 ELSE LET p[i \in 0..n] == IF i = 0 THEN 1 ELSE 5 * p[i - 1] IN p[n]

\* Decimal(x) for the float x = num / 2^bits (float.as_integer_ratio): the exact value,
\* num * 5^bits * 10^(-bits).
DecimalOfFloat(num, bits) == Value([coef |-> num * Pow5(bits), exp |-> -bits])

MinOf(a, b) == IF a <= b THEN a ELSE b

\* Decimal.__eq__: numeric equality.
DecEq(a, b) ==
    LET e == MinOf(a.exp, b.exp)
    IN a.coef * Pow10(a.exp - e) = b.coef * Pow10(b.exp - e)

(***************************************************************************)
(* TxerpadParseUtils.parse_money                                           *)
(***************************************************************************)
\* Mutant of LeadingRun: re.search in place of re.match, the first run of digits and
\* dots anywhere in the text.
LeadingRun_search(text) ==
    LET ok(i) == IsDigit(text[i]) \/ text[i] = "."
    IN IF \A i \in 1..Len(text) : ~ok(i) THEN <<>>
       ELSE LET b == CHOOSE i \in 1..Len(text) : ok(i) /\ \A j \in 1..(i - 1) : ~ok(j)
                e == CHOOSE i \in b..Len(text) :
                         /\ \A j \in b..i : ok(j)
                         /\ (i = Len(text) \/ ~ok(i + 1))
            IN SubSeq(text, b, e)

\* re.match(r'(\d|\.)+', text): the longest leading run of digits and dots;
\* the empty run stands for "no match" (re.match returns None).
LeadingRun(text) ==
    LET n == IF \A i \in 1..Len(text) : IsDigit(text[i]) \/ text[i] = "." THEN Len(text)
             ELSE (CHOOSE i \in 1..Len(text) :
                       /\ ~(IsDigit(text[i]) \/ text[i] = ".")
                       /\ \A j \in 1..(i - 1) : IsDigit(text[j]) \/ text[j] = ".") - 1
    IN SubSeq(text, 1, n)

\* Mutant of NormalizeSeparators: the commas are left as they are.
NormalizeSeparators_keepCommas(text) == text

\* money.replace(',', '.')
NormalizeSeparators(text) == Replace(text, ",", <<".">>)

\* Mutant of DigitsToDecimal: every segment is concatenated, none is the fraction.
DigitsToDecimal_noFraction(digits_text) == DecimalOfText(Join(Split(digits_text, ".")))

\* Decimal(f'{"".join(digit_arr[:-1])}.{digit_arr[-1]}') if len(digit_arr) > 1
\* else Decimal(digits_text)
DigitsToDecimal(digits_text) ==
    LET digit_arr == Split(digits_text, ".")
        n == Len(digit_arr)
    IN IF n > 1
       THEN DecimalOfText(Join(SubSeq(digit_arr, 1, n - 1)) \o <<".">> \o digit_arr[n])
       ELSE DecimalOfText(digits_text)

\* Mutant of parse_money: no isinstance(money, str) test, whatever is no number is
\* handled as a string (money.replace raises AttributeError on what has no replace).
parse_money_noTypeCheck(money) ==
    IF money.type = "float" THEN DecimalOfFloat(money.num, money.bits)
    ELSE IF money.type \in {"int", "bool"} THEN DecimalOfInt(money.num)
    ELSE IF money.type = "str"
    THEN LET digits_text == LeadingRun(NormalizeSeparators(money.text))
         IN IF digits_text = <<>>
            THEN Raise("AttributeError")
            ELSE DigitsToDecimal(digits_text)
    ELSE Raise("AttributeError")

\* money is [type, text, num, bits]: the Python type of the argument and its value:
\* text for a str; num for an int or a bool (a bool is an int: True is 1); num / 2^bits
\* for a float.  The fields a type does not use are empty or 0.
parse_money(money) ==
    IF money.type = "float" THEN DecimalOfFloat(money.num, money.bits)
    ELSE IF money.type \in {"int", "bool"} THEN DecimalOfInt(money.num)
    ELSE IF money.type = "str"
    THEN LET digits_text == LeadingRun(NormalizeSeparators(money.text))
         IN IF digits_text = <<>>
            THEN Raise("AttributeError")  \* None has no attribute 'group'
            ELSE DigitsToDecimal(digits_text)
    ELSE None

(***************************************************************************)
(* InvoiceType                                                             *)
(***************************************************************************)
SALE == "venta"
PURCHASE == "compra"
SALE_RECTIFYING == "rectifica_venta"
PURCHASE_RECTIFYING == "rectifica_compra"

TYPES == <<SALE, PURCHASE, SALE_RECTIFYING, PURCHASE_RECTIFYING>>

\* Mutant of SALES: the rectifying type is left out of the group.
SALES_withoutRectifying == <<SALE>>

SALES == <<SALE, SALE_RECTIFYING>>

\* Mutant of PURCHASES: the rectifying type is left out of the group.
PURCHASES_withoutRectifying == <<PURCHASE>>

PURCHASES == <<PURCHASE, PURCHASE_RECTIFYING>>

RECTIFIES == <<SALE_RECTIFYING, PURCHASE_RECTIFYING>>

\* x in lst, for a Python list or tuple lst
In(x, lst) == \E i \in 1..Len(lst) : lst[i] = x

(***************************************************************************)
(* TxerpadParseUtils.parse_tax                                             *)
(*                                                                         *)
(* A tax rate is a number of tenths of a percent, so that the fractional   *)
(* keys of the tables (0.5, 1.4, 5.2, 19.5) and the whole ones compare by  *)
(* value as the keys of a Python dict do: Pct(19, 5) is 19.5, Pct(4, 0)    *)
(* is 4 and 4.0.                                                           *)
(***************************************************************************)
Pct(whole, tenths) == 10 * whole + tenths

IVA_SALES ==
    Pct(0, 0) :> "IVANOSUJETO" @@ Pct(4, 0) :> "IVAVENTASE4" @@
    Pct(10, 0) :> "IVAVENTASE10" @@ Pct(21, 0) :> "IVAVENTASE21"

IVA_PURCHASES ==
    Pct(0, 0) :> "IVACOMPRASNOSUJETO" @@ Pct(0, 5) :> "IVACOMPRASRE05" @@
    Pct(1, 4) :> "IVACOMPRASRE14" @@ Pct(5, 2) :> "IVACOMPRASRE52" @@
    Pct(4, 0) :> "IVACOMPRASE4" @@ Pct(10, 0) :> "IVACOMPRASE10" @@
    Pct(21, 0) :> "IVACOMPRASE21"

IRPF_SALES ==
    Pct(1, 0) :> "IRPFCUENTA1" @@ Pct(2, 0) :> "IRPFCUENTA2" @@
    Pct(7, 0) :> "IRPFCUENTA7" @@ Pct(15, 0) :> "IRPFCUENTA15" @@
    Pct(19, 0) :> "IRPFCUENTA19A" @@ Pct(19, 5) :> "IRPFCUENTA195A" @@
    Pct(20, 0) :> "IRPFCUENTA20" @@ Pct(21, 0) :> "IRPFCUENTA21"

\* Mutant of IRPF_PURCHASES: the code for 21 is the one of the SALES table.
IRPF_PURCHASES_salesCode ==
    Pct(1, 0) :> "RETIRPF1" @@ Pct(2, 0) :> "RETIRPF2" @@
    Pct(7, 0) :> "RETIRPF7" @@ Pct(15, 0) :> "RETIRPF15" @@
    Pct(19, 0) :> "RETIRPF19A" @@ Pct(19, 5) :> "RETIRPF195A" @@
    Pct(20, 0) :> "RETIRPF20" @@ Pct(21, 0) :> "IRPFCUENTA21"

IRPF_PURCHASES ==
    Pct(1, 0) :> "RETIRPF1" @@ Pct(2, 0) :> "RETIRPF2" @@
    Pct(7, 0) :> "RETIRPF7" @@ Pct(15, 0) :> "RETIRPF15" @@
    Pct(19, 0) :> "RETIRPF19A" @@ Pct(19, 5) :> "RETIRPF195A" @@
    Pct(20, 0) :> "RETIRPF20" @@ Pct(21, 0) :> "RETIRPF21"

\* Mutant of Get: a rate that is no key gives the code of the nearest lower key.
Get_roundsDown(table, key) ==
    IF \E k \in DOMAIN table : k <= key
    THEN Value(table[CHOOSE k \in DOMAIN table :
                        k <= key /\ \A j \in DOMAIN table : j <= key => j <= k])
    ELSE None

\* dict.get(key, None)
Get(table, key) == IF key \in DOMAIN table THEN Value(table[key]) ELSE None

parse_tax(invoice_type, tax_type, tax_rate) ==
    IF tax_type = "IVA"
    THEN IF In(invoice_type, SALES) THEN Get(IVA_SALES, tax_rate)
         ELSE IF In(invoice_type, PURCHASES) THEN Get(IVA_PURCHASES, tax_rate)
         ELSE None
    ELSE IF tax_type = "IRPF"
    THEN IF In(invoice_type, SALES) THEN Get(IRPF_SALES, tax_rate)
         ELSE IF In(invoice_type, PURCHASES) THEN Get(IRPF_PURCHASES, tax_rate)
         ELSE None
    ELSE None

(***************************************************************************)
(* datetime.datetime.strptime, for the formats made of the directives %d,  *)
(* %m and %Y, each once, with one literal character between them.  A       *)
(* format is its sequence of tokens: '%d/%m/%Y' is                         *)
(* <<"%d", "/", "%m", "/", "%Y">>.                                         *)
(***************************************************************************)
AllDigits(s) == \A i \in 1..Len(s) : IsDigit(s[i])

\* The text a directive's regular expression accepts:
\* %d (3[0-1]|[1-2]\d|0[1-9]|[1-9]), %m (1[0-2]|0[1-9]|[1-9]), %Y (\d\d\d\d).
FieldMatches(directive, text) ==
    /\ AllDigits(text)
    /\ CASE directive = "%d" -> Len(text) \in {1, 2} /\ DigitsToNat(text) \in 1..31
         [] directive = "%m" -> Len(text) \in {1, 2} /\ DigitsToNat(text) \in 1..12
         [] directive = "%Y" -> Len(text) = 4
         [] OTHER -> FALSE

IsLeap(y) == (y % 4 = 0) /\ ((y % 100 # 0) \/ (y % 400 = 0))

DaysInMonth(y, m) ==
    IF m = 2 THEN (IF IsLeap(y) THEN 29 ELSE 28)
    ELSE IF m \in {4, 6, 9, 11} THEN 30 ELSE 31

\* datetime's own check of a date: MINYEAR is 1.
ValidDate(d, m, y) == y >= 1 /\ m \in 1..12 /\ d \in 1..DaysInMonth(y, m)

strptime(date_string, format) ==
    LET fields == Split(date_string, format[2])
        at(directive) == fields[CHOOSE k \in 1..3 : format[2 * k - 1] = directive]
    IN IF /\ Len(fields) = 3
          /\ \A k \in 1..3 : FieldMatches(format[2 * k - 1], fields[k])
          /\ ValidDate(DigitsToNat(at("%d")), DigitsToNat(at("%m")), DigitsToNat(at("%Y")))
       THEN Value([year |-> DigitsToNat(at("%Y")),
                   month |-> DigitsToNat(at("%m")),
                   day |-> DigitsToNat(at("%d"))])
       ELSE Raise("ValueError")

(***************************************************************************)
(* TxerpadParseUtils.parse_invoice_period                                  *)
(***************************************************************************)
\* '%s%s' % (invoice_period, year)
FormatPeriod(invoice_period, year) == invoice_period \o IntToStr(year)

\* Mutant of SalesPeriod: the year is the current year, not the issue date's.
SalesPeriod_currentYear(invoice_period, issue_date, date_format) ==
    IF strptime(issue_date, date_format).kind = "raise" THEN strptime(issue_date, date_format)
    ELSE Value(FormatPeriod(invoice_period, today.year))

\* line 280: the SALES branch
SalesPeriod(invoice_period, issue_date, date_format) ==
    LET parsed == strptime(issue_date, date_format)
    IN IF parsed.kind = "raise" THEN parsed
       ELSE Value(FormatPeriod(invoice_period, parsed.val.year))

\* Mutant of CurrTrimester: the 1-based number of the trimester.
CurrTrimester_oneBased(month) == ((month - 1) \div 3) + 1

\* line 284: curr_trimester = (curr_month - 1) // 3
CurrTrimester(month) == (month - 1) \div 3

\* Mutant of PurchasesPeriod: a trimester not yet reached gets the current year too.
PurchasesPeriod_alwaysCurrentYear(invoice_period, month, year) ==
    IF StrToInt(Replace(invoice_period, "T", <<>>)).kind = "raise"
    THEN StrToInt(Replace(invoice_period, "T", <<>>))
    ELSE Value(FormatPeriod(invoice_period, year))

\* lines 284-287: the PURCHASES branch, from the month and the year read off the clock
PurchasesPeriod(invoice_period, month, year) ==
    LET n == StrToInt(Replace(invoice_period, "T", <<>>))
    IN IF n.kind = "raise" THEN n
       ELSE Value(FormatPeriod(invoice_period,
                  IF n.val <= CurrTrimester(month) THEN year ELSE year - 1))

(***************************************************************************)
(* TxerpadParseUtils.parse_country                                         *)
(*                                                                         *)
(* pycountry.countries is the ISO 3166-1 catalog in its iteration order    *)
(* (by 3-letter code); the model holds seven of its entries.  The          *)
(* 'iso3166' gettext domain of pycountry.LOCALES_DIR gives the translated  *)
(* names; the model holds the Spanish and German ones and, of the Guarani  *)
(* ones (gn), the name of Malaysia, which is the English name of Mexico.   *)
(***************************************************************************)
UpperChars == <<"A", "B", "C", "D", "E", "F", "G", "H", "I", "J", "K", "L", "M",
                "N", "O", "P", "Q", "R", "S", "T", "U", "V", "W", "X", "Y", "Z">>

LowerChars == <<"a", "b", "c", "d", "e", "f", "g", "h", "i", "j", "k", "l", "m",
                "n", "o", "p", "q", "r", "s", "t", "u", "v", "w", "x", "y", "z">>

\* Mutant of Lower: the text is compared as it is written.
Lower_caseSensitive(s) == s

\* str.lower()
Lower(s) ==
    [i \in 1..Len(s) |->
        IF \E k \in 1..26 : UpperChars[k] = s[i]
        THEN LowerChars[CHOOSE k \in 1..26 : UpperChars[k] = s[i]]
        ELSE s[i]]

countries ==
    <<[alpha_2 |-> <<"C", "U">>, alpha_3 |-> <<"C", "U", "B">>,
       name |-> <<"C", "u", "b", "a">>],
      [alpha_2 |-> <<"D", "E">>, alpha_3 |-> <<"D", "E", "U">>,
       name |-> <<"G", "e", "r", "m", "a", "n", "y">>],
      [alpha_2 |-> <<"F", "R">>, alpha_3 |-> <<"F", "R", "A">>,
       name |-> <<"F", "r", "a", "n", "c", "e">>],
      [alpha_2 |-> <<"M", "X">>, alpha_3 |-> <<"M", "E", "X">>,
       name |-> <<"M", "e", "x", "i", "c", "o">>],
      [alpha_2 |-> <<"M", "Y">>, alpha_3 |-> <<"M", "Y", "S">>,
       name |-> <<"M", "a", "l", "a", "y", "s", "i", "a">>],
      [alpha_2 |-> <<"T", "D">>, alpha_3 |-> <<"T", "C", "D">>,
       name |-> <<"C", "h", "a", "d">>],
      [alpha_2 |-> <<"T", "G">>, alpha_3 |-> <<"T", "G", "O">>,
       name |-> <<"T", "o", "g", "o">>]>>

\* The locale directory of the catalog, for the entries above: the names pycountry ships
\* for es and de, and the gn name of Malaysia.  "e_ACUTE" stands for the one character
\* of the e with an acute accent.
LocaleNames ==
    [es |-> (<<"C", "u", "b", "a">> :> <<"C", "u", "b", "a">> @@
            <<"G", "e", "r", "m", "a", "n", "y">> :> <<"A", "l", "e", "m", "a", "n", "i", "a">> @@
            <<"F", "r", "a", "n", "c", "e">> :> <<"F", "r", "a", "n", "c", "i", "a">> @@
            <<"M", "e", "x", "i", "c", "o">> :> <<"M", "e_ACUTE", "x", "i", "c", "o">> @@
            <<"M", "a", "l", "a", "y", "s", "i", "a">> :> <<"M", "a", "l", "a", "s", "i", "a">> @@
            <<"C", "h", "a", "d">> :> <<"C", "h", "a", "d">> @@
            <<"T", "o", "g", "o">> :> <<"T", "o", "g", "o">>),
     de |-> (<<"C", "u", "b", "a">> :> <<"K", "u", "b", "a">> @@
            <<"G", "e", "r", "m", "a", "n", "y">> :> <<"D", "e", "u", "t", "s", "c", "h", "l", "a", "n", "d">> @@
            <<"F", "r", "a", "n", "c", "e">> :> <<"F", "r", "a", "n", "k", "r", "e", "i", "c", "h">> @@
            <<"M", "e", "x", "i", "c", "o">> :> <<"M", "e", "x", "i", "k", "o">> @@
            <<"M", "a", "l", "a", "y", "s", "i", "a">> :> <<"M", "a", "l", "a", "y", "s", "i", "a">> @@
            <<"C", "h", "a", "d">> :> <<"T", "s", "c", "h", "a", "d">> @@
            <<"T", "o", "g", "o">> :> <<"T", "o", "g", "o">>),
     gn |-> (<<"M", "a", "l", "a", "y", "s", "i", "a">> :> <<"M", "e", "x", "i", "c", "o">>)]

\* gettext.translation('iso3166', pycountry.LOCALES_DIR, languages=[language_code]):
\* whether the catalog has that language (FileNotFoundError when it has not).
HasLocale(language_code) == language_code \in DOMAIN LocaleNames

\* language_translator.gettext(en_country_text): the translated name, or the text
\* itself when the language has no translation of it.
Gettext(language_code, en_country_text) ==
    IF en_country_text \in DOMAIN LocaleNames[language_code]
    THEN LocaleNames[language_code][en_country_text]
    ELSE en_country_text

\* lines 232-237: the loop over country_translation_languages
TranslateIn(languages, en_country_text, transl_country_text) ==
    LET hit(i) == /\ HasLocale(languages[i])
                  /\ Lower(Gettext(languages[i], en_country_text)) = Lower(transl_country_text)
        stop(i) == ~HasLocale(languages[i]) \/ hit(i)
    IN IF \E i \in 1..Len(languages) : stop(i)
       THEN LET first == CHOOSE i \in 1..Len(languages) :
                             stop(i) /\ \A j \in 1..(i - 1) : ~stop(j)
            IN IF hit(first) THEN Value(TRUE) ELSE Raise("FileNotFoundError")
       ELSE Value(FALSE)

\* lines 226-237: translate(en_country_text, transl_country_text)
translate(languages, en_country_text, transl_country_text) ==
    IF Lower(en_country_text) = Lower(transl_country_text) THEN Value(TRUE)
    ELSE TranslateIn(languages, en_country_text, transl_country_text)

\* Mutant of CountryMatches: the 3-letter code is not looked at.
CountryMatches_nameOnly(country, country_text, languages) ==
    translate(languages, country.name, country_text)

\* line 240: the condition of the list comprehension, for one country
CountryMatches(country, country_text, languages) ==
    IF Lower(country.alpha_3) = Lower(country_text) THEN Value(TRUE)
    ELSE translate(languages, country.name, country_text)

\* parse_country returning alpha_2_countries[-1] in place of alpha_2_countries[0].
parse_country_last(country_text, country_translation_languages) ==
    LET m(i) == CountryMatches(countries[i], country_text, country_translation_languages)
        hits == {i \in 1..Len(countries) : m(i).kind = "value" /\ m(i).val}
    IN IF \E i \in 1..Len(countries) : m(i).kind = "raise" THEN Raise("FileNotFoundError")
       ELSE IF hits = {} THEN None
       ELSE Value(countries[CHOOSE i \in hits : \A j \in hits : i >= j].alpha_2)

parse_country(country_text, country_translation_languages) ==
    LET m(i) == CountryMatches(countries[i], country_text, country_translation_languages)
        hits == {i \in 1..Len(countries) : m(i).kind = "value" /\ m(i).val}
    IN IF \E i \in 1..Len(countries) : m(i).kind = "raise" THEN Raise("FileNotFoundError")
       ELSE IF hits = {} THEN None
       ELSE Value(countries[CHOOSE i \in hits : \A j \in hits : i <= j].alpha_2)

(***************************************************************************)
(* The inputs the invocations are drawn from.                              *)
(***************************************************************************)
MaxMoneyLen == 4
MaxLocales == 2
FirstYear == 2018
NumYears == 2
MaxTicks == 1

\* All sequences over S of length at most n.
SeqsUpTo(S, n) == UNION {[1..k -> S] : k \in 0..n}

MoneyChars == {"0", "1", "5", ",", ".", "E"}

\* "EUR_SIGN" stands for the one character of the euro sign.
MoneyTexts ==
    SeqsUpTo(MoneyChars, MaxMoneyLen)
        \cup {<<"1", "5", "8", ",", "0", "0", "0", ".", "1", "5", "7">>, <<"1", "5", "8", ".", "0", "0", "0", ",", "1", "5", "7">>,
              <<"1", "0", "E", "U", "R">>, <<"1", "0", "EUR_SIGN">>, <<"EUR_SIGN", "1", "0">>,
              <<"-", "5">>, <<"1", ",", "0", "0", "0">>}

PyStr(t) == [type |-> "str", text |-> t, num |-> 0, bits |-> 0]
PyInt(n) == [type |-> "int", text |-> <<>>, num |-> n, bits |-> 0]
PyBool(n) == [type |-> "bool", text |-> <<>>, num |-> n, bits |-> 0]
PyFloat(n, b) == [type |-> "float", text |-> <<>>, num |-> n, bits |-> b]
PyOther(t) == [type |-> t, text |-> <<>>, num |-> 0, bits |-> 0]

MoneyInputs ==
    {PyStr(t) : t \in MoneyTexts}
        \cup {PyInt(n) : n \in {-5, 0, 10, 158000}}
        \cup {PyBool(n) : n \in {0, 1}}
        \cup {PyFloat(10, 0), PyFloat(39, 1), PyFloat(1, 3), PyFloat(-5, 2)}
        \cup {PyOther(t) : t \in {"NoneType", "list", "Decimal", "bytes"}}

InvoiceTypeInputs == {SALE, PURCHASE, SALE_RECTIFYING, PURCHASE_RECTIFYING,
                      "NONEXISTENT_TYPE", "VENTA"}

TaxTypeInputs == {"IVA", "IRPF", "iva", "IGIC", ""}

TaxRateInputs ==
    {Pct(w, 0) : w \in {0, 1, 2, 4, 7, 10, 15, 19, 20, 21, 99}}
        \cup {Pct(0, 5), Pct(1, 4), Pct(5, 2), Pct(19, 5), Pct(4, 1), Pct(20, 5)}

SLASH_DATE_FORMAT == <<"%d", "/", "%m", "/", "%Y">>
DASH_DATE_FORMAT == <<"%Y", "-", "%m", "-", "%d">>

DateFormatInputs == {SLASH_DATE_FORMAT, DASH_DATE_FORMAT}

\* n written with at least `width` digits (zero padded).
Padded(n, width) ==
    LET t == NatToStr(n)
    IN [i \in 1..(IF Len(t) < width THEN width - Len(t) ELSE 0) |-> "0"] \o t

\* datetime.strftime for the formats above.
DateText(d, m, y, format) ==
    LET field(directive) == CASE directive = "%d" -> Padded(d, 2)
                              [] directive = "%m" -> Padded(m, 2)
                              [] directive = "%Y" -> Padded(y, 4)
    IN field(format[1]) \o <<format[2]>> \o field(format[3]) \o <<format[4]>> \o field(format[5])

IssueDays == {1, 31}
IssueMonths == {2, 10}
IssueYears == {2017, 2020}

IssueDateInputs ==
    {DateText(d, m, y, f) : d \in IssueDays, m \in IssueMonths, y \in IssueYears,
                            f \in DateFormatInputs}
        \cup {DateText(25, 1, 2019, SLASH_DATE_FORMAT), DateText(12, 5, 2015, SLASH_DATE_FORMAT),
              DateText(10, 10, 2017, SLASH_DATE_FORMAT), DateText(1, 1, 2019, SLASH_DATE_FORMAT),
              DateText(29, 2, 2019, SLASH_DATE_FORMAT), DateText(29, 2, 2020, SLASH_DATE_FORMAT),
              <<"5", "/", "3", "/", "2", "0", "1", "9">>,
              <<"0", "1", "/", "0", "1", "/", "1", "9">>,
              <<"n", "/", "a">>, <<>>}

PeriodInputs ==
    {<<d, "T">> : d \in {"1", "2", "3", "4", "5"}}
        \cup {<<"1">>, <<"T">>, <<"X", "T">>}

Years == FirstYear..(FirstYear + NumYears - 1)

ClockValues == [year : Years, month : 1..12]

Locales == {"es", "de", "gn", "xx"}

LocaleInputs == SeqsUpTo(Locales, MaxLocales)

Upper(s) ==
    [i \in 1..Len(s) |->
        IF \E k \in 1..26 : LowerChars[k] = s[i]
        THEN UpperChars[CHOOSE k \in 1..26 : LowerChars[k] = s[i]]
        ELSE s[i]]

CountryNames ==
    {countries[i].alpha_3 : i \in 1..Len(countries)}
        \cup {countries[i].alpha_2 : i \in 1..Len(countries)}
        \cup {countries[i].name : i \in 1..Len(countries)}
        \cup {Gettext(l, countries[i].name) : l \in DOMAIN LocaleNames, i \in 1..Len(countries)}
        \cup {<<"X", "X", "X">>, <<"G", "e", "r", "m", "a", "n">>, <<>>}

CountryTextInputs ==
    CountryNames \cup {Upper(t) : t \in CountryNames} \cup {Lower(t) : t \in CountryNames}

(***************************************************************************)
(* The state machine: one invocation of one of the four operations, with   *)
(* the clock running beside it.                                            *)
(***************************************************************************)
\* No thread beside the one invocation.
NoThreads == <<>>

\* Those who call the operations that take several steps, and no call under way.
Callers == {"A", "B"}
NoOne == <<>>

\* f without x in its domain.
Without(f, x) == [y \in DOMAIN f \ {x} |-> f[y]]

\* Caller c can make a call: none of c is under way, and of the callers that are free
\* the first is taken (which of them calls makes no difference).
IsNextCaller(c) ==
    /\ c \notin DOMAIN running
    /\ c = "A" \/ "A" \in DOMAIN running

\* No create call is followed; the shadow of the clients' state is not in use.
NotTracked == [state |-> "none", rule |-> "", statement_id |-> "", lambda_function |-> ""]
NoWorld == [rules |-> {}, targets |-> {}, permissions |-> {}]

\* No dict has been passed as lambda_json_input.
NoDicts == <<>>

\* Nothing logged, nothing wrapped, no rule, target or permission, no uuid drawn.
InitAws ==
    /\ calls = <<>>
    /\ items = <<>>
    /\ wrapped = <<>>
    /\ rules = {}
    /\ targets = {}
    /\ permissions = {}
    /\ uuids = 0
    /\ running = NoOne
    /\ dicts = NoDicts
    /\ tracked = NotTracked
    /\ shadow = NoWorld

InitCommon ==
    /\ pc = "call"
    /\ ret = Pending
    /\ curr_month = 0
    /\ curr_year = 0
    /\ ticks = 0
    /\ threads = NoThreads
    /\ InitAws

InitMoney ==
    /\ op = "parse_money"
    /\ args \in [money : MoneyInputs]
    /\ today = [year |-> FirstYear, month |-> 1]
    /\ InitCommon

InitTax ==
    /\ op = "parse_tax"
    /\ args \in [invoice_type : InvoiceTypeInputs, tax_type : TaxTypeInputs,
                 tax_rate : TaxRateInputs]
    /\ today = [year |-> FirstYear, month |-> 1]
    /\ InitCommon

InitCountry ==
    /\ op = "parse_country"
    /\ args \in [country_text : CountryTextInputs,
                 country_translation_languages : LocaleInputs]
    /\ today = [year |-> FirstYear, month |-> 1]
    /\ InitCommon

InitPeriod ==
    /\ op = "parse_invoice_period"
    /\ args \in [invoice_period : PeriodInputs, invoice_type : InvoiceTypeInputs,
                 issue_date : IssueDateInputs, date_format : DateFormatInputs]
    /\ today \in ClockValues
    /\ InitCommon

Init == InitMoney \/ InitTax \/ InitCountry \/ InitPeriod

ParseMoney ==
    /\ op = "parse_money" /\ pc = "call"
    /\ ret' = parse_money(args.money)
    /\ pc' = "done"
    /\ UNCHANGED <<op, args, today, curr_month, curr_year, ticks, threads, aws>>

ParseTax ==
    /\ op = "parse_tax" /\ pc = "call"
    /\ ret' = parse_tax(args.invoice_type, args.tax_type, args.tax_rate)
    /\ pc' = "done"
    /\ UNCHANGED <<op, args, today, curr_month, curr_year, ticks, threads, aws>>

ParseCountry ==
    /\ op = "parse_country" /\ pc = "call"
    /\ ret' = parse_country(args.country_text, args.country_translation_languages)
    /\ pc' = "done"
    /\ UNCHANGED <<op, args, today, curr_month, curr_year, ticks, threads, aws>>

\* Mutant of ParseInvoicePeriod: every type that is not a SALES type is taken for a
\* PURCHASES type (else in place of elif).
ParseInvoicePeriod_elseBranch ==
    /\ op = "parse_invoice_period" /\ pc = "call"
    /\ IF In(args.invoice_type, SALES)
       THEN /\ ret' = SalesPeriod(args.invoice_period, args.issue_date, args.date_format)
            /\ pc' = "done"
            /\ UNCHANGED curr_month
       ELSE /\ curr_month' = today.month
            /\ pc' = "read_year"
            /\ UNCHANGED ret
    /\ UNCHANGED <<op, args, today, curr_year, ticks, threads, aws>>

\* lines 279-282 and 288: the SALES branch and the fall-through return at once, the
\* PURCHASES branch up to its first reading of the clock.
ParseInvoicePeriod ==
    /\ op = "parse_invoice_period" /\ pc = "call"
    /\ IF In(args.invoice_type, SALES)
       THEN /\ ret' = SalesPeriod(args.invoice_period, args.issue_date, args.date_format)
            /\ pc' = "done"
            /\ UNCHANGED curr_month
       ELSE IF In(args.invoice_type, PURCHASES)
       THEN /\ curr_month' = today.month
            /\ pc' = "read_year"
            /\ UNCHANGED ret
       ELSE /\ ret' = None
            /\ pc' = "done"
            /\ UNCHANGED curr_month
    /\ UNCHANGED <<op, args, today, curr_year, ticks, threads, aws>>

\* lines 283-287: the second reading of the clock and the result.
ParseInvoicePeriodYear ==
    /\ op = "parse_invoice_period" /\ pc = "read_year"
    /\ curr_year' = today.year
    /\ ret' = PurchasesPeriod(args.invoice_period, curr_month, today.year)
    /\ pc' = "done"
    /\ UNCHANGED <<op, args, today, curr_month, ticks, threads, aws>>

\* The clock moves on to the next month while an invocation is under way.
Tick ==
    /\ pc = "read_year"
    /\ ticks < MaxTicks
    /\ ticks' = ticks + 1
    /\ \/ today.month < 12 /\ today' = [today EXCEPT !.month = @ + 1]
       \/ today.month = 12 /\ today.year + 1 \in Years
                           /\ today' = [year |-> today.year + 1, month |-> 1]
    /\ UNCHANGED <<op, args, pc, ret, curr_month, curr_year, threads, aws>>

Next == ParseMoney \/ ParseTax \/ ParseCountry \/ ParseInvoicePeriod
            \/ ParseInvoicePeriodYear \/ Tick

Spec == Init /\ [][Next]_vars

SpecMoney == InitMoney /\ [][ParseMoney]_vars

SpecTax == InitTax /\ [][ParseTax]_vars

SpecCountry == InitCountry /\ [][ParseCountry]_vars

NextPeriod == ParseInvoicePeriod \/ ParseInvoicePeriodYear \/ Tick

SpecPeriod == InitPeriod /\ [][NextPeriod]_vars

\* The two operations that branch on the invoice type.
InitTypes == InitTax \/ InitPeriod

NextTypes == ParseTax \/ NextPeriod

SpecTypes == InitTypes /\ [][NextTypes]_vars

(***************************************************************************)
(* Invocations side by side: every thread invokes one operation once, the  *)
(* steps of the threads interleave and the clock runs beside them.  An     *)
(* invocation is [op, args, pc, ret, curr_month, curr_year] as above, with *)
(* the clock values at its first and at its last step.                     *)
(***************************************************************************)
Threads == {"a", "b", "c"}

NoDate == [year |-> 0, month |-> 0]

Invocation(o, a) ==
    [op |-> o, args |-> a, pc |-> "call", ret |-> Pending, curr_month |-> 0,
     curr_year |-> 0, called_at |-> NoDate, returned_at |-> NoDate]

\* An issue date that no format parses.
UNPARSEABLE_DATE == <<"n", "/", "a">>

ThreadInvocations ==
    {Invocation("parse_money", [money |-> PyStr(<<"1", ",", "5">>)]),
     Invocation("parse_tax", [invoice_type |-> SALE, tax_type |-> "IVA",
                              tax_rate |-> Pct(21, 0)]),
     Invocation("parse_country", [country_text |-> <<"M", "e", "x", "i", "c", "o">>,
                                  country_translation_languages |-> <<"gn">>])}
        \cup {Invocation("parse_invoice_period",
                         [invoice_period |-> l, invoice_type |-> PURCHASE,
                          issue_date |-> DateText(25, 1, 2019, SLASH_DATE_FORMAT),
                          date_format |-> SLASH_DATE_FORMAT]) :
                  l \in {<<"1", "T">>, <<"2", "T">>}}
        \cup {Invocation("parse_invoice_period",
                         [invoice_period |-> <<"1", "T">>, invoice_type |-> t,
                          issue_date |-> DateText(25, 1, 2019, SLASH_DATE_FORMAT),
                          date_format |-> SLASH_DATE_FORMAT]) :
                  t \in {SALE, "NONEXISTENT_TYPE"}}
        \cup {Invocation("parse_invoice_period",
                         [invoice_period |-> <<"1", "T">>, invoice_type |-> PURCHASE,
                          issue_date |-> d, date_format |-> f]) :
                  d \in {UNPARSEABLE_DATE}, f \in {DASH_DATE_FORMAT}}

\* The clock at the start: the last month of a trimester and the last month of a year.
ThreadClockStarts == {[year |-> FirstYear, month |-> m] : m \in {3, 12}}

InitThreads ==
    /\ op = "none"
    /\ args = <<>>
    /\ pc = "done"
    /\ ret = Pending
    /\ curr_month = 0
    /\ curr_year = 0
    /\ ticks = 0
    /\ today \in ThreadClockStarts
    /\ threads \in [Threads -> ThreadInvocations]
    /\ InitAws

\* The invocation after it has returned r.
Returned(inv, r) ==
    [inv EXCEPT !.ret = r, !.pc = "done", !.called_at = today, !.returned_at = today]

\* Mutant of ThreadReadYear: curr_month is kept where every thread writes it (a class
\* attribute in place of a local), so the month used is the one some thread stored.
ThreadReadYear_sharedMonth(t) ==
    /\ threads[t].pc = "read_year"
    /\ \E u \in Threads :
           /\ threads[u].curr_month # 0
           /\ threads' = [threads EXCEPT ![t] =
                  [threads[t] EXCEPT
                       !.curr_year = today.year,
                       !.ret = PurchasesPeriod(threads[t].args.invoice_period,
                                               threads[u].curr_month, today.year),
                       !.pc = "done",
                       !.returned_at = today]]
    /\ UNCHANGED <<op, args, pc, ret, today, curr_month, curr_year, ticks, aws>>

\* Mutant of ThreadCall: parse_invoice_period parses the issue date before it looks at
\* the invoice type.
ThreadCall_parsesIssueDate(t) ==
    LET inv == threads[t]
    IN /\ inv.pc = "call"
       /\ threads' = [threads EXCEPT ![t] =
              CASE inv.op = "parse_money" -> Returned(inv, parse_money(inv.args.money))
                [] inv.op = "parse_tax" ->
                       Returned(inv, parse_tax(inv.args.invoice_type, inv.args.tax_type,
                                               inv.args.tax_rate))
                [] inv.op = "parse_country" ->
                       Returned(inv, parse_country(inv.args.country_text,
                                                   inv.args.country_translation_languages))
                [] inv.op = "parse_invoice_period" ->
                       IF strptime(inv.args.issue_date, inv.args.date_format).kind = "raise"
                       THEN Returned(inv, strptime(inv.args.issue_date, inv.args.date_format))
                       ELSE IF In(inv.args.invoice_type, SALES)
                       THEN Returned(inv, SalesPeriod(inv.args.invoice_period,
                                                      inv.args.issue_date, inv.args.date_format))
                       ELSE IF In(inv.args.invoice_type, PURCHASES)
                       THEN [inv EXCEPT !.curr_month = today.month, !.pc = "read_year",
                                        !.called_at = today]
                       ELSE Returned(inv, None)]
       /\ UNCHANGED <<op, args, pc, ret, today, curr_month, curr_year, ticks, aws>>

\* The first step of thread t: the whole call of parse_money, parse_tax and
\* parse_country, and parse_invoice_period as in ParseInvoicePeriod.
ThreadCall(t) ==
    LET inv == threads[t]
    IN /\ inv.pc = "call"
       /\ threads' = [threads EXCEPT ![t] =
              CASE inv.op = "parse_money" -> Returned(inv, parse_money(inv.args.money))
                [] inv.op = "parse_tax" ->
                       Returned(inv, parse_tax(inv.args.invoice_type, inv.args.tax_type,
                                               inv.args.tax_rate))
                [] inv.op = "parse_country" ->
                       Returned(inv, parse_country(inv.args.country_text,
                                                   inv.args.country_translation_languages))
                [] inv.op = "parse_invoice_period" ->
                       IF In(inv.args.invoice_type, SALES)
                       THEN Returned(inv, SalesPeriod(inv.args.invoice_period,
                                                      inv.args.issue_date, inv.args.date_format))
                       ELSE IF In(inv.args.invoice_type, PURCHASES)
                       THEN [inv EXCEPT !.curr_month = today.month, !.pc = "read_year",
                                        !.called_at = today]
                       ELSE Returned(inv, None)]
       /\ UNCHANGED <<op, args, pc, ret, today, curr_month, curr_year, ticks, aws>>

\* lines 283-287 in thread t: the second reading of the clock and the result.
ThreadReadYear(t) ==
    /\ threads[t].pc = "read_year"
    /\ threads' = [threads EXCEPT ![t] =
           [threads[t] EXCEPT
                !.curr_year = today.year,
                !.ret = PurchasesPeriod(threads[t].args.invoice_period,
                                        threads[t].curr_month, today.year),
                !.pc = "done",
                !.returned_at = today]]
    /\ UNCHANGED <<op, args, pc, ret, today, curr_month, curr_year, ticks, aws>>

\* The clock moves on to the next month beside the threads.
ThreadTick ==
    /\ threads # NoThreads
    /\ ticks < MaxTicks
    /\ ticks' = ticks + 1
    /\ \/ today.month < 12 /\ today' = [today EXCEPT !.month = @ + 1]
       \/ today.month = 12 /\ today.year + 1 \in Years
                           /\ today' = [year |-> today.year + 1, month |-> 1]
    /\ UNCHANGED <<op, args, pc, ret, curr_month, curr_year, threads, aws>>

NextThreads ==
    \/ \E t \in Threads : ThreadCall(t)
    \/ \E t \in Threads : ThreadReadYear(t)
    \/ ThreadTick

SpecThreads == InitThreads /\ [][NextThreads]_vars

(***************************************************************************)
(* DynamoDBUtils.log, log_wrapper, update_event, update_item and put_item  *)
(* (src/ie_utils/__init__.py; src/utils/__init__.py holds the same code).  *)
(*                                                                         *)
(* A Python value is [type, text]: its type and what str() makes of it.    *)
(* The collaborators (the DynamoDB table, the logger, Sentry, the wrapped  *)
(* function) are seen through the calls made on them, kept in order in     *)
(* calls, and through the items of the table.  An operator that runs code  *)
(* takes and gives a world w = [calls, items].  A call of the wrapped      *)
(* obj.name is a sequence of steps, one up to each write of the wrapper    *)
(* and one for the original function, and the other operations, each of    *)
(* them one call on the table, come in between.                            *)
(***************************************************************************)
PyNone == [type |-> "NoneType", text |-> "None"]
PyText(t) == [type |-> "str", text |-> t]
PyDict(t) == [type |-> "dict", text |-> t]
PyDecimal(t) == [type |-> "Decimal", text |-> t]

\* bool(v), as `and` and `not` take it
Truthy(v) ==
    CASE v.type = "NoneType" -> FALSE
      [] v.type = "str" -> v.text # ""
      [] v.type = "dict" -> v.text # "{}"
      [] OTHER -> TRUE

\* str(v), also what an f-string puts in place of {v}
StrOf(v) == v.text

Called(w, api, params) == [w EXCEPT !.calls = Append(@, [api |-> api, params |-> params])]

\* str(datetime.datetime.now()), to the month
DatetimeStr(date) ==
    Join(<<Padded(date.year, 4), <<"-">>, Padded(date.month, 2)>>)

\* The tables of the DynamoDB resource; a call on a table of any other name raises.
Tables == {"table_name"}

\* What a call on a table raises for a name that is not in Tables: botocore's
\* ClientError for a table that does not exist, EndpointConnectionError for one that
\* cannot be reached.
UpdateItemError(table_name) ==
    IF table_name = "unreachable_table" THEN "EndpointConnectionError" ELSE "ClientError"

LOG_UPDATE_EXPRESSION ==
    "SET log_messages = list_append(if_not_exists(log_messages, :empty_list), :add_value)"

EVENT_UPDATE_EXPRESSION ==
    "SET message = :errorMessage, #st = :eventStatus, processed_at = :ts"

REMOVE_LOG_EXPRESSION == "REMOVE log_messages"

\* An item without attributes beside its key.
EmptyItem == <<>>

\* The item with attribute name set to value.
SetAttr(item, name, value) ==
    [n \in DOMAIN item \cup {name} |-> IF n = name THEN value ELSE item[n]]

\* DynamoDB's reading of the update expressions on an item (the empty item when it is
\* not there): list_append(if_not_exists(...)) starts log_messages as :empty_list when
\* the item has none and appends :add_value; SET sets the attributes; REMOVE drops one.
UpdatedItem(item, kwargs) ==
    CASE kwargs.UpdateExpression = LOG_UPDATE_EXPRESSION ->
             LET values == kwargs.ExpressionAttributeValues
                 log_messages == IF "log_messages" \in DOMAIN item
                                 THEN item["log_messages"] ELSE values.empty_list
             IN SetAttr(item, "log_messages", log_messages \o values.add_value)
      [] kwargs.UpdateExpression = EVENT_UPDATE_EXPRESSION ->
             LET values == kwargs.ExpressionAttributeValues
             IN SetAttr(SetAttr(SetAttr(item, "message", values.errorMessage),
                                "status", values.eventStatus),
                        "processed_at", values.ts)
      [] kwargs.UpdateExpression = REMOVE_LOG_EXPRESSION ->
             [n \in DOMAIN item \ {"log_messages"} |-> item[n]]

\* The items after table.update_item(**kwargs): the item is created when it is not there.
UpdateItemOn(its, table_name, kwargs) ==
    LET id == <<table_name, StrOf(kwargs.Key.identifier)>>
        item == IF id \in DOMAIN its THEN its[id] ELSE EmptyItem
    IN [i \in DOMAIN its \cup {id} |-> IF i = id THEN UpdatedItem(item, kwargs) ELSE its[i]]

\* The items after table.put_item(Item=entry_data): the item of that identifier is
\* replaced by entry_data.
PutItemOn(its, table_name, entry_data) ==
    LET id == <<table_name, entry_data["identifier"]>>
    IN [i \in DOMAIN its \cup {id} |->
           IF i = id THEN [n \in DOMAIN entry_data \ {"identifier"} |-> entry_data[n]]
           ELSE its[i]]

\* lines 162-164 (utils: 171-173): get_table and table.update_item(**kwargs)
update_item(w, table_name, kwargs) ==
    LET w1 == Called(w, "update_item", [table_name |-> table_name, kwargs |-> kwargs])
    IN IF StrOf(table_name) \in Tables
       THEN [w |-> [w1 EXCEPT !.items = UpdateItemOn(@, StrOf(table_name), kwargs)],
             out |-> None]
       ELSE [w |-> w1, out |-> Raise(UpdateItemError(StrOf(table_name)))]

\* lines 145-159 (utils: 154-168): update_event(table_name=..., table_key=...,
\* status=..., errorMessage=...); a keyword that is not given is None.
update_event(w, kwargs) ==
    update_item(w, kwargs.table_name,
                [Key |-> [identifier |-> kwargs.table_key],
                 UpdateExpression |-> EVENT_UPDATE_EXPRESSION,
                 ExpressionAttributeValues |->
                     [errorMessage |-> kwargs.errorMessage,
                      eventStatus |-> kwargs.status,
                      ts |-> DatetimeStr(today)],
                 ExpressionAttributeNames |-> [st |-> "status"]])

\* lines 202-211: put_item
put_item(w, table_name, entry_data) ==
    LET w1 == Called(w, "put_item", [table_name |-> table_name, Item |-> entry_data])
    IN IF StrOf(table_name) \in Tables
       THEN [w |-> [w1 EXCEPT !.items = PutItemOn(@, StrOf(table_name), entry_data)],
             out |-> None]
       ELSE [w |-> w1, out |-> Raise(UpdateItemError(StrOf(table_name)))]

\* The keyword arguments log gives update_item.
LogKwargs(table_key, description, log_object) ==
    [Key |-> [identifier |-> table_key],
     UpdateExpression |-> LOG_UPDATE_EXPRESSION,
     ExpressionAttributeValues |->
         [empty_list |-> <<>>,
          add_value |-> <<[datetime |-> DatetimeStr(today),
                           description |-> description,
                           log_object |-> StrOf(log_object)]>>]]

\* Mutant of log: the log object is not looked at before writing.
log_anyLogObject(w, table_name, table_key, description, log_object) ==
    IF ~(Truthy(table_name) /\ Truthy(table_key))
    THEN [w |-> Called(w, "logger.error",
                       [message |-> "Database logging impossible due to None value, table name: "
                                        \o StrOf(table_name) \o ", table key: "
                                        \o StrOf(table_key)
                                        \o ", log_object: " \o StrOf(log_object)]),
          out |-> None]
    ELSE LET updated == update_item(w, table_name,
                                    LogKwargs(table_key, description, log_object))
         IN IF updated.out.kind # "raise" THEN [w |-> updated.w, out |-> None]
            ELSE [w |-> Called(Called(updated.w, "logger.exception",
                                      [message |-> "Error logging event " \o StrOf(description)
                                                       \o " to db, log object: "
                                                       \o StrOf(log_object)]),
                               "capture_exception", [exc |-> updated.out.val]),
                  out |-> None]

\* Mutant of log: no try/except around the update, its exception goes to the caller.
log_noExcept(w, table_name, table_key, description, log_object) ==
    IF ~(Truthy(table_name) /\ Truthy(table_key) /\ Truthy(log_object))
    THEN [w |-> Called(w, "logger.error",
                       [message |-> "Database logging impossible due to None value, table name: "
                                        \o StrOf(table_name) \o ", table key: "
                                        \o StrOf(table_key)
                                        \o ", log_object: " \o StrOf(log_object)]),
          out |-> None]
    ELSE update_item(w, table_name, LogKwargs(table_key, description, log_object))

\* lines 115-142 (utils: 124-151): DynamoDBUtils.log.  Gives the world after the call
\* and the call's outcome.
log(w, table_name, table_key, description, log_object) ==
    IF ~(Truthy(table_name) /\ Truthy(table_key) /\ Truthy(log_object))
    THEN [w |-> Called(w, "logger.error",
                       [message |-> "Database logging impossible due to None value, table name: "
                                        \o StrOf(table_name) \o ", table key: "
                                        \o StrOf(table_key)
                                        \o ", log_object: " \o StrOf(log_object)]),
          out |-> None]
    ELSE LET updated == update_item(w, table_name,
                                    LogKwargs(table_key, description, log_object))
         IN IF updated.out.kind # "raise" THEN [w |-> updated.w, out |-> None]
            ELSE [w |-> Called(Called(updated.w, "logger.exception",
                                      [message |-> "Error logging event " \o StrOf(description)
                                                       \o " to db, log object: "
                                                       \o StrOf(log_object)]),
                               "capture_exception", [exc |-> updated.out.val]),
                  out |-> None]

\* DynamoDBUtils.log as the wrapper calls it: the call is noted, then it runs.
LogCalled(w, table_name, table_key, description, log_object) ==
    log(Called(w, "DynamoDBUtils.log",
               [table_name |-> table_name, table_key |-> table_key,
                description |-> description, log_object |-> log_object]),
        table_name, table_key, description, log_object)

\* obj.name before any wrapping, a function of one positional argument: what it returns
\* (a str, a Decimal) or raises.
ORIGINAL_NAME == "name"

OriginalFunction(a) ==
    CASE a = "str" -> Value(PyText("test"))
      [] a = "decimal" -> Value(PyDecimal("1.5"))
      [] a = "raise" -> Raise("ValueError")

\* json.dumps(results)
JsonDumps(results) ==
    IF results = None THEN Value("null")
    ELSE IF results.val.type = "str" THEN Value("\"" \o results.val.text \o "\"")
    ELSE Raise("TypeError")  \* Object of type Decimal is not JSON serializable

\* repr(list(args)) for the one positional argument
ReprArgs(a) == "['" \o a \o "']"

\* func.__name__ and str(inspect.signature(func)) of the function the wrapper of that
\* level is around: the original function for level 1, a wrapper above.
FuncName(level) == IF level = 1 THEN ORIGINAL_NAME ELSE "wrapper"
Signature(level) == IF level = 1 THEN "(a)" ELSE "(*args, **kwargs)"

\* A call of obj.name(a) under way, obj.name being the original function after `top`
\* wrappings: the wrapper of `level` is at its request write, the original function is
\* about to run, or the wrapper of `level` is at its response write.
WrapperCall(a, top) ==
    [op |-> "obj.name", a |-> a, top |-> top, level |-> top,
     phase |-> IF top = 0 THEN "func" ELSE "request", results |-> Pending, calls |-> <<>>]

\* lines 104-110 (utils: 113-119): the call of obj.name(a) from where it is to its next
\* wait.  Gives the world after the step, the call after it and, when the call ends
\* with the step, its outcome.  An exception goes through every wrapper at once.
wrapper(inv) ==
    LET w == [calls |-> inv.calls, items |-> items]
        table_name == wrapped[inv.level].table_name
        table_key == wrapped[inv.level].table_key
    IN CASE inv.phase = "request" ->
                LET logged == LogCalled(w, table_name, table_key,
                                        PyText("function " \o FuncName(inv.level)
                                                   \o " request"),
                                        PyDict("{'signature': '" \o Signature(inv.level)
                                                   \o "', 'args': " \o ReprArgs(inv.a)
                                                   \o ", 'kwargs': {}}"))
                IN IF logged.out.kind = "raise"
                   THEN [w |-> logged.w, inv |-> inv, out |-> logged.out]
                   ELSE [w |-> logged.w, out |-> Pending,
                         inv |-> [inv EXCEPT !.level = @ - 1,
                                             !.phase = IF inv.level = 1 THEN "func"
                                                       ELSE "request"]]
         [] inv.phase = "func" ->
                LET results == OriginalFunction(inv.a)
                    called == Called(w, "func", [args |-> <<inv.a>>])
                IN IF results.kind = "raise" \/ inv.top = 0
                   THEN [w |-> called, inv |-> inv, out |-> results]
                   ELSE [w |-> called, out |-> Pending,
                         inv |-> [inv EXCEPT !.results = results, !.level = 1,
                                             !.phase = "response"]]
         [] inv.phase = "response" ->
                LET dumped == JsonDumps(inv.results)
                    logged == LogCalled(w, table_name, table_key,
                                        PyText("function " \o FuncName(inv.level)
                                                   \o " response"),
                                        PyDict("{'args': " \o ReprArgs(inv.a)
                                                   \o ", 'result': '" \o dumped.val \o "'}"))
                IN IF dumped.kind = "raise" THEN [w |-> w, inv |-> inv, out |-> dumped]
                   ELSE IF logged.out.kind = "raise"
                   THEN [w |-> logged.w, inv |-> inv, out |-> logged.out]
                   ELSE IF inv.level = inv.top
                   THEN [w |-> logged.w, inv |-> inv, out |-> inv.results]
                   ELSE [w |-> logged.w, out |-> Pending,
                         inv |-> [inv EXCEPT !.level = @ + 1]]

MaxWraps == 1
MaxLogEntries == 2

TableNameInputs ==
    {PyNone, PyText("table_name"), PyText("no_such_table"), PyText("unreachable_table")}

TableKeyInputs == {PyText(""), PyText("key")}

DescriptionInputs == {PyText("test log")}

LogObjectInputs == {PyNone, PyText(""), PyDict("{}"), PyDict("{'a': 1}")}

WrapperTableInputs == {PyText("table_name")}

FunctionArgs == {"str", "decimal", "raise"}

\* The arguments the callers call obj.name with: the second caller, who calls while a
\* call of the first is under way, passes one argument.
CallerArgs(c) == IF c = "A" THEN FunctionArgs ELSE {"str"}

\* The arguments of log: all of them present, on a table that is there, is not there or
\* cannot be reached; one of them missing or empty.
LogInputs ==
    LET good == [table_name |-> PyText("table_name"), table_key |-> PyText("key"),
                 log_object |-> PyDict("{'a': 1}")]
    IN {[good EXCEPT !.table_name = t] : t \in TableNameInputs}
         \cup {[good EXCEPT !.table_key = k] : k \in TableKeyInputs}
         \cup {[good EXCEPT !.log_object = o] : o \in LogObjectInputs}

\* The tables put_item and update_event are called on, and those update_item is.
ItemTableInputs == {PyText("table_name")}
UpdateItemTableInputs == {PyText("table_name"), PyText("no_such_table")}

\* The entry_data of put_item.
EntryDataInputs == {[identifier |-> "key", status |-> "NEW"]}

\* The keyword arguments of update_event beside table_name: a key, a status, and
\* errorMessage given or not.
UpdateEventInputs ==
    {[table_key |-> PyText("key"), status |-> PyText("DONE"), errorMessage |-> m] :
         m \in {PyNone, PyText("boom")}}

\* The keyword arguments of update_item when it is called directly.
UpdateItemInputs ==
    {[Key |-> [identifier |-> PyText("key")], UpdateExpression |-> REMOVE_LOG_EXPRESSION]}

\* No item of the table holds more than MaxLogEntries log messages.
EntriesFit(its) ==
    \A i \in DOMAIN its :
        "log_messages" \in DOMAIN its[i] => Len(its[i]["log_messages"]) <= MaxLogEntries

\* No operation is under way: the state between the operations of this part.
InitIdle ==
    /\ op = "none"
    /\ args = <<>>
    /\ pc = "done"
    /\ ret = Pending
    /\ curr_month = 0
    /\ curr_year = 0
    /\ ticks = 0
    /\ today = [year |-> FirstYear, month |-> 1]
    /\ threads = NoThreads
    /\ InitAws

\* What the operations of this part leave alone.
LogFrame ==
    UNCHANGED <<pc, today, curr_month, curr_year, ticks, threads, rules, targets,
                permissions, uuids, dicts, tracked, shadow>>

\* An operation that is one call on the table has returned: its name, arguments,
\* outcome and calls, and the items after it.
Returns(name, arguments, done) ==
    /\ EntriesFit(done.w.items)
    /\ op' = name
    /\ args' = arguments
    /\ ret' = done.out
    /\ calls' = done.w.calls
    /\ items' = done.w.items

\* DynamoDBUtils.log(table_name, table_key, description, log_object)
Log ==
    /\ \E input \in LogInputs, description \in DescriptionInputs :
          Returns("log",
                  [table_name |-> input.table_name, table_key |-> input.table_key,
                   description |-> description, log_object |-> input.log_object],
                  log([calls |-> <<>>, items |-> items], input.table_name,
                      input.table_key, description, input.log_object))
    /\ UNCHANGED <<wrapped, running>>
    /\ LogFrame

\* DynamoDBUtils.put_item(table_name, entry_data)
PutItem ==
    /\ \E table_name \in ItemTableInputs, entry_data \in EntryDataInputs :
          Returns("put_item", [table_name |-> table_name, entry_data |-> entry_data],
                  put_item([calls |-> <<>>, items |-> items], table_name, entry_data))
    /\ UNCHANGED <<wrapped, running>>
    /\ LogFrame

\* DynamoDBUtils.update_event(table_name=..., table_key=..., status=..., ...)
UpdateEvent ==
    /\ \E table_name \in ItemTableInputs, kwargs \in UpdateEventInputs :
          Returns("update_event",
                  [table_name |-> table_name, table_key |-> kwargs.table_key,
                   status |-> kwargs.status, errorMessage |-> kwargs.errorMessage],
                  update_event([calls |-> <<>>, items |-> items],
                               [table_name |-> table_name, table_key |-> kwargs.table_key,
                                status |-> kwargs.status,
                                errorMessage |-> kwargs.errorMessage]))
    /\ UNCHANGED <<wrapped, running>>
    /\ LogFrame

\* DynamoDBUtils.update_item(table_name, **kwargs), called directly
UpdateItem ==
    /\ \E table_name \in UpdateItemTableInputs, kwargs \in UpdateItemInputs :
          Returns("update_item", [table_name |-> table_name, kwargs |-> kwargs],
                  update_item([calls |-> <<>>, items |-> items], table_name, kwargs))
    /\ UNCHANGED <<wrapped, running>>
    /\ LogFrame

\* DynamoDBUtils.log_wrapper(obj, 'name', table_name, table_key): lines 101-112
\* (utils: 110-121)
LogWrapper ==
    /\ Len(wrapped) < MaxWraps
    /\ \E table_name \in WrapperTableInputs, table_key \in {PyText("key")} :
          /\ wrapped' = Append(wrapped, [table_name |-> table_name, table_key |-> table_key])
          /\ op' = "log_wrapper"
          /\ args' = [fn_name |-> ORIGINAL_NAME, table_name |-> table_name,
                      table_key |-> table_key]
    /\ ret' = None
    /\ calls' = <<>>
    /\ UNCHANGED <<items, running>>
    /\ LogFrame

\* Caller c goes one step on with the call inv of obj.name: the call's name, arguments
\* and calls so far are there to see, and its outcome, which is Pending while the call
\* is under way.
CallNameGoes(c, inv) ==
    LET step == wrapper(inv)
    IN /\ EntriesFit(step.w.items)
       /\ items' = step.w.items
       /\ running' = IF step.out = Pending
                     THEN (c :> [step.inv EXCEPT !.calls = step.w.calls]) @@ running
                     ELSE Without(running, c)
       /\ op' = "obj.name"
       /\ args' = [a |-> inv.a, top |-> inv.top]
       /\ ret' = step.out
       /\ calls' = step.w.calls

\* obj.name(a) is called, up to its first wait.
CallName ==
    /\ \E c \in Callers :
          /\ IsNextCaller(c)
          /\ \E a \in CallerArgs(c) :
                 CallNameGoes(c, WrapperCall(a, Len(wrapped)))
    /\ UNCHANGED wrapped
    /\ LogFrame

\* A call of obj.name that is under way goes on to its next wait or to its return.
CallNameStep ==
    /\ \E c \in DOMAIN running : CallNameGoes(c, running[c])
    /\ UNCHANGED wrapped
    /\ LogFrame

NextLog ==
    Log \/ PutItem \/ UpdateEvent \/ UpdateItem \/ LogWrapper \/ CallName \/ CallNameStep

SpecLog == InitIdle /\ [][NextLog]_vars

(***************************************************************************)
(* create_cloud_watch_cron_rule and delete_cloud_watch_cron_rule           *)
(* (src/ie_utils/__init__.py).  The CloudWatch Events and Lambda clients   *)
(* are seen through the calls made on them and through the rules, targets  *)
(* and permissions they hold.  A call of either function is a sequence of  *)
(* steps, one for each wait for a client, and the steps of two callers     *)
(* interleave.  Every client call succeeds, but for put_targets on a rule  *)
(* that has been deleted in the meantime, which may be refused.  The dict  *)
(* passed as lambda_json_input is an object that the call writes into and  *)
(* reads again a step later; a caller may pass one dict to several calls.  *)
(***************************************************************************)
\* uuid.uuid4().hex: the n-th value drawn, different from every other one.
Hex(n) == "hex" \o ToString(n)

\* put_rule(...)['RuleArn'] and get_function(...)['Configuration']['FunctionArn']
RuleArn(name) == "arn:aws:events:rule/" \o name
FunctionArn(name) == "arn:aws:lambda:function:" \o name

CallOf(api, params) == [api |-> api, params |-> params]

\* lines 254-258: the body of lambda_json_input with the rule's data put in
\* (dict.update: a key that is there is overwritten).  A body is a set of <<key, value>>.
AttachRuleData(body, cron_rule_name, statement_id) ==
    {kv \in body : kv[1] \notin {"cron_rule_name", "statement_id"}}
        \cup {<<"cron_rule_name", cron_rule_name>>, <<"statement_id", statement_id>>}

\* put_rule: the rule of that name is created or replaced.
PutRule(rs, rule) == {r \in rs : r.Name # rule.Name} \cup {rule}

\* put_targets: the target of that rule and Id is created or replaced.
PutTargets(ts, target) ==
    {t \in ts : ~(t.Rule = target.Rule /\ t.Id = target.Id)} \cup {target}

\* What the clients hold, as one value.
World == [rules |-> rules, targets |-> targets, permissions |-> permissions]

\* What the clients hold after one call on a state w of theirs (logger calls and the
\* calls that only read leave it as it is).
ApplyCall(w, c) ==
    CASE c.api = "put_rule" -> [w EXCEPT !.rules = PutRule(@, c.params)]
      [] c.api = "put_targets" ->
             [w EXCEPT !.targets = PutTargets(@, [Rule |-> c.params.Rule,
                                                  Id |-> c.params.Targets[1].Id,
                                                  Arn |-> c.params.Targets[1].Arn,
                                                  Input |-> c.params.Targets[1].Input])]
      [] c.api = "add_permission" -> [w EXCEPT !.permissions = @ \cup {c.params}]
      [] c.api = "remove_targets" ->
             [w EXCEPT !.targets = {t \in @ : ~(t.Rule = StrOf(c.params.Rule)
                                                    /\ t.Id \in c.params.Ids)}]
      [] c.api = "delete_rule" ->
             [w EXCEPT !.rules = {r \in @ : r.Name # StrOf(c.params.Name)}]
      [] c.api = "remove_permission" ->
             [w EXCEPT !.permissions =
                           {q \in @ : ~(q.FunctionName = c.params.FunctionName
                                            /\ q.StatementId = c.params.StatementId)}]
      [] OTHER -> w

\* The same for a sequence of calls, in order.
RECURSIVE Replay(_, _)
Replay(w, cs) == IF cs = <<>> THEN w ELSE Replay(ApplyCall(w, Head(cs)), Tail(cs))

MaxUuids == 4

\* A rule made by other means, with two targets and a permission of its own.
OTHER_RULE == "nightly"
OTHER_STATEMENT == "nightly-stmt-id"

LambdaFunctions == {"lambda_function", "other_function"}

CronExpressionInputs == {"cron(0 12 * * ? *)"}

RuleDescriptionInputs == {"description"}

\* The dicts that callers pass as lambda_json_input, as they are when first passed:
\* {"body": '{"event": "run", "statement_id": "old"}'} and {}.
WITH_BODY == [has_body |-> TRUE, body |-> {<<"event", "run">>, <<"statement_id", "old">>}]
NO_BODY == [has_body |-> FALSE, body |-> {}]

\* A dict is an object: the call is handed the dict itself, so lambda_json_input is the
\* name of a dict in dicts.  SHARED_DICT and EMPTY_DICT are dicts the callers keep and
\* pass again, to one call after another or to two calls at a time; OwnDict(c) is a dict
\* that caller c makes anew for a call.
SHARED_DICT == "d"
EMPTY_DICT == "e"
OwnDict(c) == "d_" \o c

LambdaJsonInputs(c) == {OwnDict(c), SHARED_DICT, EMPTY_DICT}

\* The arguments caller c calls create with beside the expression and the description:
\* the rule's data attached to a body or to no body (which raises), and nothing attached.
CreateInputs(c) ==
    {[lambda_function |-> "lambda_function", lambda_json_input |-> j, attach_rule_data |-> TRUE] :
         j \in LambdaJsonInputs(c)}
      \cup {[lambda_function |-> "other_function", lambda_json_input |-> SHARED_DICT,
             attach_rule_data |-> FALSE]}

\* The permissions there are for a rule.
PermissionsFor(name) == {q \in permissions : q.SourceArn = RuleArn(name)}

\* The names of the rules there are and of those a permission is left of.
RuleNames ==
    {r.Name : r \in rules}
        \cup {n \in {OTHER_RULE} \cup {"Rule_" \o Hex(k) : k \in 1..uuids} :
                 PermissionsFor(n) # {}}

\* The arguments delete is called with: no rule name (None, ''), and the name of a rule
\* with the statement id and the function of its permission, or with a statement id
\* there is not when it has none.
DeleteInputs ==
    {[rule_name |-> n, statement_id |-> "no-stmt-id", function_name |-> "lambda_function"] :
         n \in {PyNone, PyText("")}
                  \cup {PyText(m) : m \in {k \in RuleNames : PermissionsFor(k) = {}}}}
      \cup UNION {{[rule_name |-> PyText(n), statement_id |-> q.StatementId,
                     function_name |-> q.FunctionName] : q \in PermissionsFor(n)} :
                       n \in RuleNames}

InitCron ==
    /\ op = "none"
    /\ args = <<>>
    /\ pc = "done"
    /\ ret = Pending
    /\ curr_month = 0
    /\ curr_year = 0
    /\ ticks = 0
    /\ today = [year |-> FirstYear, month |-> 1]
    /\ threads = NoThreads
    /\ calls = <<>>
    /\ items = <<>>
    /\ wrapped = <<>>
    /\ uuids = 0
    /\ running = NoOne
    /\ dicts = (SHARED_DICT :> WITH_BODY) @@ (EMPTY_DICT :> NO_BODY)
    /\ tracked = NotTracked
    /\ shadow = NoWorld
    /\ rules = {[Name |-> OTHER_RULE, ScheduleExpression |-> "rate(1 day)",
                 State |-> "ENABLED", Description |-> "nightly run"]}
    /\ targets = {[Rule |-> OTHER_RULE, Id |-> id, Arn |-> FunctionArn("lambda_function"),
                   Input |-> [has_body |-> FALSE, body |-> {}]] : id \in {"id", "id2"}}
    /\ permissions = {[FunctionName |-> "lambda_function", StatementId |-> OTHER_STATEMENT,
                       Action |-> "lambda:InvokeFunction", SourceArn |-> RuleArn(OTHER_RULE),
                       Principal |-> "events.amazonaws.com"]}

\* A call of create_cloud_watch_cron_rule or delete_cloud_watch_cron_rule that is about
\* to begin: pc names the client call it waits for next, vals holds its local variables,
\* calls the calls it has made, role whether its round trip is followed.
CronCall(name, arguments, first, role) ==
    [op |-> name, args |-> arguments, pc |-> first, vals |-> <<>>, calls |-> <<>>,
     role |-> role]

\* The local variables vals with name set to value.
Local(vals, name, value) == SetAttr(vals, name, value)

\* The target create puts, with json.dumps(lambda_json_input) of the dict as it is when
\* put_targets is called (line 268), and the permission it adds.
TargetOf(inv) ==
    [Rule |-> inv.vals["cron_rule_name"],
     Targets |-> <<[Id |-> inv.vals["cron_rule_name"], Arn |-> inv.vals["lambda_arn"],
                    Input |-> dicts[inv.args.lambda_json_input]]>>]

PermissionOf(inv) ==
    [FunctionName |-> inv.args.lambda_function,
     StatementId |-> inv.vals["statement_id"],
     Action |-> "lambda:InvokeFunction",
     SourceArn |-> inv.vals["rule_arn"],
     Principal |-> "events.amazonaws.com"]

\* What a step of a call gives: the calls made in it, those of them that the clients
\* carried out, the uuid4 values drawn, the call after it and its outcome; written is
\* what the step has written into dicts that were passed to the call.
StepOf(made, done, drawn, inv, out) ==
    [calls |-> made, done |-> done, drawn |-> drawn, inv |-> inv, out |-> out,
     written |-> NoDicts]

\* line 258: lambda_json_input['body'] = json.dumps(json_body), written into the dict
\* that was passed.
SetBody(step, name, json_body) ==
    [step EXCEPT !.written = (name :> [has_body |-> TRUE, body |-> json_body]) @@ @]

\* Mutant of create_cloud_watch_cron_rule: the permission is added before the target.
create_cloud_watch_cron_rule_permissionFirst(inv, refused) ==
    CASE inv.pc = "put_rule" ->
             LET cron_rule_name == "Rule_" \o Hex(uuids + 1)
                 made == <<CallOf("put_rule",
                                  [Name |-> cron_rule_name,
                                   ScheduleExpression |-> inv.args.cron_expression,
                                   State |-> "ENABLED",
                                   Description |-> inv.args.description])>>
             IN StepOf(made, made, 1,
                       [inv EXCEPT !.pc = "get_function",
                                   !.vals = Local(Local(@, "cron_rule_name", cron_rule_name),
                                                  "rule_arn", RuleArn(cron_rule_name))],
                       Pending)
      [] inv.pc = "get_function" ->
             LET cron_rule_name == inv.vals["cron_rule_name"]
                 statement_id == inv.args.lambda_function \o "-stmt-id-" \o Hex(uuids + 1)
                 info == <<CallOf("logger.info",
                                  [message |-> "Rule " \o cron_rule_name
                                                   \o " created, and scheduled for "
                                                   \o inv.args.cron_expression])>>
                 passed == dicts[inv.args.lambda_json_input]
                 made == info \o <<CallOf("get_function",
                                          [FunctionName |-> inv.args.lambda_function])>>
                 step == StepOf(made, made, 1,
                                [inv EXCEPT !.pc = "put_targets",
                                            !.vals = Local(Local(@, "statement_id",
                                                                 statement_id),
                                                           "lambda_arn",
                                                           FunctionArn(
                                                               inv.args.lambda_function))],
                                Pending)
             IN IF ~inv.args.attach_rule_data THEN step
                ELSE IF ~passed.has_body
                THEN StepOf(info, info, 1, inv, Raise("TypeError"))
                ELSE SetBody(step, inv.args.lambda_json_input,
                             AttachRuleData(passed.body, cron_rule_name, statement_id))
      [] inv.pc = "put_targets" ->
             LET made == <<CallOf("add_permission", PermissionOf(inv))>>
             IN StepOf(made, made, 0, [inv EXCEPT !.pc = "add_permission"], Pending)
      [] inv.pc = "add_permission" ->
             LET made == <<CallOf("logger.info",
                                  [message |-> "Permission with id "
                                                   \o inv.vals["statement_id"]
                                                   \o " added for rule "
                                                   \o inv.vals["cron_rule_name"]]),
                           CallOf("put_targets", TargetOf(inv))>>
                 info == <<CallOf("logger.info",
                                  [message |-> "Target for rule "
                                                   \o inv.vals["cron_rule_name"]
                                                   \o " added"])>>
             IN StepOf(made \o info, made \o info, 0, inv,
                       Value(<<inv.vals["cron_rule_name"], inv.vals["statement_id"]>>))

\* lines 237-283, from where the call is to its next wait for a client: the rule name's
\* uuid4 and put_rule (243-250); the statement id's uuid4, the rule's data attached to
\* the input, and get_function (251-261); put_targets (262-271); add_permission and
\* the return (272-283).  Other calls can come in between two of these steps.
\* lambda_json_input names the dict that was passed, dicts holds it as [has_body, body].
\* With attach_rule_data, json.loads of a body that is not there raises TypeError after
\* the rule has been put; a body that is there is read from the dict as it is then,
\* and the body with the rule's data is written into that dict, where the caller and
\* every call that was handed the same dict find it.
\* refused: the rule is not there any more and put_targets raises.
create_cloud_watch_cron_rule(inv, refused) ==
    CASE inv.pc = "put_rule" ->
             LET cron_rule_name == "Rule_" \o Hex(uuids + 1)
                 made == <<CallOf("put_rule",
                                  [Name |-> cron_rule_name,
                                   ScheduleExpression |-> inv.args.cron_expression,
                                   State |-> "ENABLED",
                                   Description |-> inv.args.description])>>
             IN StepOf(made, made, 1,
                       [inv EXCEPT !.pc = "get_function",
                                   !.vals = Local(Local(@, "cron_rule_name", cron_rule_name),
                                                  "rule_arn", RuleArn(cron_rule_name))],
                       Pending)
      [] inv.pc = "get_function" ->
             LET cron_rule_name == inv.vals["cron_rule_name"]
                 statement_id == inv.args.lambda_function \o "-stmt-id-" \o Hex(uuids + 1)
                 info == <<CallOf("logger.info",
                                  [message |-> "Rule " \o cron_rule_name
                                                   \o " created, and scheduled for "
                                                   \o inv.args.cron_expression])>>
                 passed == dicts[inv.args.lambda_json_input]
                 made == info \o <<CallOf("get_function",
                                          [FunctionName |-> inv.args.lambda_function])>>
                 step == StepOf(made, made, 1,
                                [inv EXCEPT !.pc = "put_targets",
                                            !.vals = Local(Local(@, "statement_id",
                                                                 statement_id),
                                                           "lambda_arn",
                                                           FunctionArn(
                                                               inv.args.lambda_function))],
                                Pending)
             IN IF ~inv.args.attach_rule_data THEN step
                ELSE IF ~passed.has_body
                THEN StepOf(info, info, 1, inv, Raise("TypeError"))
                ELSE SetBody(step, inv.args.lambda_json_input,
                             AttachRuleData(passed.body, cron_rule_name, statement_id))
      [] inv.pc = "put_targets" ->
             LET made == <<CallOf("put_targets", TargetOf(inv))>>
             IN IF refused
                THEN StepOf(made, <<>>, 0, inv, Raise("ResourceNotFoundException"))
                ELSE StepOf(made, made, 0, [inv EXCEPT !.pc = "add_permission"], Pending)
      [] inv.pc = "add_permission" ->
             LET made == <<CallOf("logger.info",
                                  [message |-> "Target for rule "
                                                   \o inv.vals["cron_rule_name"]
                                                   \o " added"]),
                           CallOf("add_permission", PermissionOf(inv)),
                           CallOf("logger.info",
                                  [message |-> "Permission with id "
                                                   \o inv.vals["statement_id"]
                                                   \o " added for rule "
                                                   \o inv.vals["cron_rule_name"]])>>
             IN StepOf(made, made, 0, inv,
                       Value(<<inv.vals["cron_rule_name"], inv.vals["statement_id"]>>))

\* The calls of delete's last step.
PermissionRemoved(inv) ==
    <<CallOf("logger.info",
             [message |-> "Rule " \o StrOf(inv.args.rule_name) \o " deleted"]),
      CallOf("remove_permission",
             [FunctionName |-> inv.args.function_name,
              StatementId |-> inv.args.statement_id]),
      CallOf("logger.info",
             [message |-> "Permission " \o inv.args.statement_id \o " deleted"])>>

\* Mutant of delete_cloud_watch_cron_rule: no `if rule_name:` around the calls.
delete_cloud_watch_cron_rule_noGuard(inv) ==
    CASE inv.pc = "list_targets_by_rule" ->
             LET made == <<CallOf("list_targets_by_rule", [Rule |-> inv.args.rule_name])>>
                 listed == {t.Id : t \in {u \in targets :
                                              u.Rule = StrOf(inv.args.rule_name)}}
             IN StepOf(made, made, 0,
                       [inv EXCEPT !.pc = "remove_targets",
                                   !.vals = Local(@, "listed", listed)],
                       Pending)
      [] inv.pc = "remove_targets" ->
             LET made == <<CallOf("remove_targets",
                                  [Rule |-> inv.args.rule_name,
                                   Ids |-> inv.vals["listed"], Force |-> TRUE])>>
             IN StepOf(made, made, 0, [inv EXCEPT !.pc = "delete_rule"], Pending)
      [] inv.pc = "delete_rule" ->
             LET made == <<CallOf("delete_rule",
                                  [Name |-> inv.args.rule_name, Force |-> TRUE])>>
             IN StepOf(made, made, 0, [inv EXCEPT !.pc = "remove_permission"], Pending)
      [] inv.pc = "remove_permission" ->
             StepOf(PermissionRemoved(inv), PermissionRemoved(inv), 0, inv, None)

\* Mutant of delete_cloud_watch_cron_rule: the permission is left in place.
delete_cloud_watch_cron_rule_keepsPermission(inv) ==
    CASE inv.pc = "list_targets_by_rule" ->
             LET made == <<CallOf("list_targets_by_rule", [Rule |-> inv.args.rule_name])>>
                 listed == {t.Id : t \in {u \in targets :
                                              u.Rule = StrOf(inv.args.rule_name)}}
             IN IF ~Truthy(inv.args.rule_name) THEN StepOf(<<>>, <<>>, 0, inv, None)
                ELSE StepOf(made, made, 0,
                            [inv EXCEPT !.pc = "remove_targets",
                                        !.vals = Local(@, "listed", listed)],
                            Pending)
      [] inv.pc = "remove_targets" ->
             LET made == <<CallOf("remove_targets",
                                  [Rule |-> inv.args.rule_name,
                                   Ids |-> inv.vals["listed"], Force |-> TRUE])>>
             IN StepOf(made, made, 0, [inv EXCEPT !.pc = "delete_rule"], Pending)
      [] inv.pc = "delete_rule" ->
             LET made == <<CallOf("delete_rule",
                                  [Name |-> inv.args.rule_name, Force |-> TRUE])>>
             IN StepOf(made, made, 0, [inv EXCEPT !.pc = "remove_permission"], Pending)
      [] inv.pc = "remove_permission" ->
             StepOf(<<PermissionRemoved(inv)[1]>>, <<PermissionRemoved(inv)[1]>>, 0, inv,
                    None)

\* lines 286-310, from where the call is to its next wait for a client: the test of
\* rule_name and list_targets_by_rule (291-297); remove_targets of the targets that
\* were listed (295-299); delete_rule (300-303); remove_permission and the return
\* (304-310).
delete_cloud_watch_cron_rule(inv) ==
    CASE inv.pc = "list_targets_by_rule" ->
             LET made == <<CallOf("list_targets_by_rule", [Rule |-> inv.args.rule_name])>>
                 listed == {t.Id : t \in {u \in targets :
                                              u.Rule = StrOf(inv.args.rule_name)}}
             IN IF ~Truthy(inv.args.rule_name) THEN StepOf(<<>>, <<>>, 0, inv, None)
                ELSE StepOf(made, made, 0,
                            [inv EXCEPT !.pc = "remove_targets",
                                        !.vals = Local(@, "listed", listed)],
                            Pending)
      [] inv.pc = "remove_targets" ->
             LET made == <<CallOf("remove_targets",
                                  [Rule |-> inv.args.rule_name,
                                   Ids |-> inv.vals["listed"], Force |-> TRUE])>>
             IN StepOf(made, made, 0, [inv EXCEPT !.pc = "delete_rule"], Pending)
      [] inv.pc = "delete_rule" ->
             LET made == <<CallOf("delete_rule",
                                  [Name |-> inv.args.rule_name, Force |-> TRUE])>>
             IN StepOf(made, made, 0, [inv EXCEPT !.pc = "remove_permission"], Pending)
      [] inv.pc = "remove_permission" ->
             StepOf(PermissionRemoved(inv), PermissionRemoved(inv), 0, inv, None)

\* What the operations of this part leave alone.
CronFrame == UNCHANGED <<pc, today, curr_month, curr_year, ticks, threads, items, wrapped>>

\* The uuid4 values that the create calls under way have yet to draw.
ToDraw ==
    Cardinality({c \in DOMAIN running :
                    running[c].op = "create_cloud_watch_cron_rule"
                        /\ running[c].pc = "get_function"})

\* The round trip that is followed, after a step of a call of that role with that
\* outcome: the followed create call has returned or raised, the delete call that ends
\* the round trip has returned.
Followed(before, inv, out) ==
    CASE inv.role = "other" \/ out = Pending -> before
      [] inv.role = "create" /\ out.kind = "raise" -> [before EXCEPT !.state = "failed"]
      [] inv.role = "create" ->
             [state |-> "live", rule |-> out.val[1], statement_id |-> out.val[2],
              lambda_function |-> inv.args.lambda_function]
      [] inv.role = "delete" -> [before EXCEPT !.state = "deleted"]

\* Caller c goes one step on with the call inv: the clients carry out the step's calls;
\* the call's name, arguments and calls so far are there to see, and its outcome, which
\* is Pending while the call is under way.  before is the round trip that is followed
\* and what shadow and dicts hold when the step begins: the calls of the followed create
\* call and of the delete call that ends its round trip are not made on shadow, every
\* other call is.
CronGoes(c, inv, step, before) ==
    LET after == Replay(World, step.done)
    IN /\ rules' = after.rules
       /\ targets' = after.targets
       /\ permissions' = after.permissions
       /\ uuids' = uuids + step.drawn
       /\ running' = IF step.out = Pending
                     THEN (c :> [step.inv EXCEPT !.calls = inv.calls \o step.calls])
                              @@ running
                     ELSE Without(running, c)
       /\ op' = inv.op
       /\ args' = inv.args
       /\ ret' = step.out
       /\ calls' = inv.calls \o step.calls
       /\ dicts' = step.written @@ before.dicts
       /\ tracked' = Followed(before.tracked, inv, step.out)
       /\ shadow' = IF inv.role = "other" /\ before.tracked.state # "none"
                    THEN Replay(before.shadow, step.done)
                    ELSE before.shadow

\* The round trip that is followed and what shadow and dicts hold, as they are.
AsItIs == [tracked |-> tracked, shadow |-> shadow, dicts |-> dicts]

\* dicts when caller c has made the dict it passes: a dict of its own is new, as first
\* passed; a dict that is kept is as the calls before have left it.
Passing(c, name) == IF name = OwnDict(c) THEN (name :> WITH_BODY) @@ dicts ELSE dicts

\* The rule of a create call that is about to put its target is not there any more.
RuleGone(inv) ==
    /\ inv.pc = "put_targets"
    /\ \A r \in rules : r.Name # inv.vals["cron_rule_name"]

\* create_cloud_watch_cron_rule(...) is called, up to its first wait.  One call is picked
\* to have its round trip followed: from it on, shadow holds what the clients held
\* before that call with the client calls of every other call made on it.
CreateCloudWatchCronRule ==
    /\ uuids + ToDraw + 2 <= MaxUuids
    /\ \E c \in Callers, cron_expression \in CronExpressionInputs,
          description \in RuleDescriptionInputs, follow \in BOOLEAN :
       \E input \in CreateInputs(c) :
          LET passed == Passing(c, input.lambda_json_input)
              inv == CronCall("create_cloud_watch_cron_rule",
                              [cron_expression |-> cron_expression,
                               lambda_function |-> input.lambda_function,
                               lambda_json_input |-> input.lambda_json_input,
                               description |-> description,
                               attach_rule_data |-> input.attach_rule_data],
                              "put_rule", IF follow THEN "create" ELSE "other")
          IN /\ IsNextCaller(c)
             /\ follow => /\ tracked.state = "none"
                          /\ passed[input.lambda_json_input].has_body
             /\ CronGoes(c, inv, create_cloud_watch_cron_rule(inv, FALSE),
                         IF follow
                         THEN [tracked |-> [tracked EXCEPT !.state = "creating"],
                               shadow |-> World, dicts |-> passed]
                         ELSE [AsItIs EXCEPT !.dicts = passed])
    /\ CronFrame

\* A create call that is under way goes on to its next wait, to its return or to the
\* exception it raises.  put_targets for a rule that another call has deleted in the
\* meantime is refused by the service; a client that does not check takes it.
CreateCloudWatchCronRuleStep ==
    /\ \E c \in DOMAIN running, refused \in BOOLEAN :
          /\ running[c].op = "create_cloud_watch_cron_rule"
          /\ refused => RuleGone(running[c])
          /\ CronGoes(c, running[c], create_cloud_watch_cron_rule(running[c], refused),
                      AsItIs)
    /\ CronFrame

\* delete_cloud_watch_cron_rule(...) is called, up to its first wait.  Made with the
\* values the followed create call returned and with its lambda function, it ends the
\* round trip.
DeleteCloudWatchCronRule ==
    /\ \E c \in Callers, input \in DeleteInputs :
          LET ends == /\ tracked.state = "live"
                      /\ input.rule_name = PyText(tracked.rule)
                      /\ input.statement_id = tracked.statement_id
                      /\ input.function_name = tracked.lambda_function
              inv == CronCall("delete_cloud_watch_cron_rule",
                              [rule_name |-> input.rule_name,
                               statement_id |-> input.statement_id,
                               function_name |-> input.function_name],
                              "list_targets_by_rule", IF ends THEN "delete" ELSE "other")
          IN /\ IsNextCaller(c)
             /\ CronGoes(c, inv, delete_cloud_watch_cron_rule(inv),
                         IF ends
                         THEN [AsItIs EXCEPT !.tracked.state = "deleting"]
                         ELSE AsItIs)
    /\ CronFrame

\* A delete call that is under way goes on to its next wait or to its return.
DeleteCloudWatchCronRuleStep ==
    /\ \E c \in DOMAIN running :
          /\ running[c].op = "delete_cloud_watch_cron_rule"
          /\ CronGoes(c, running[c], delete_cloud_watch_cron_rule(running[c]), AsItIs)
    /\ CronFrame

NextCron ==
    \/ CreateCloudWatchCronRule
    \/ CreateCloudWatchCronRuleStep
    \/ DeleteCloudWatchCronRule
    \/ DeleteCloudWatchCronRuleStep

SpecCron == InitCron /\ [][NextCron]_vars

(***************************************************************************)
(* Properties of parse_invoice_period.                                     *)
(***************************************************************************)
PurchasesTypes == {"compra", "rectifica_compra"}
SalesTypes == {"venta", "rectifica_venta"}

\* The label 'nT'.
Label(n) == <<DigitChars[n + 1], "T">>

PeriodDone == op = "parse_invoice_period" /\ pc = "done"

\* C1: for a PURCHASES type and a label 'nT' with n in 1..4, with the month m and the
\* year y read off the clock (those of the current date when the clock has not moved
\* during the call), the result is 'nT' followed by y when n <= (m - 1) // 3 and by
\* y - 1 otherwise; on 2019-04 '1T' gives '1T2019', on 2019-02 it gives '1T2018'.
C1_PurchasesYearByTrimesterIndex ==
    (PeriodDone /\ args.invoice_type \in PurchasesTypes) =>
        /\ ticks = 0 => (curr_month = today.month /\ curr_year = today.year)
        /\ \A n \in 1..4 :
               args.invoice_period = Label(n) =>
                   ret = Value(Label(n) \o IntToStr(IF n <= (curr_month - 1) \div 3
                                                    THEN curr_year ELSE curr_year - 1))
        /\ (args.invoice_period = Label(1) /\ ticks = 0 /\ today = [year |-> 2019, month |-> 4])
               => ret = Value(<<"1", "T", "2", "0", "1", "9">>)
        /\ (args.invoice_period = Label(1) /\ ticks = 0 /\ today = [year |-> 2019, month |-> 2])
               => ret = Value(<<"1", "T", "2", "0", "1", "8">>)

C1_Witness ==
    /\ PeriodDone /\ args.invoice_type = "compra" /\ ticks = 0
    /\ args.invoice_period = Label(1)
    /\ args.issue_date = DateText(1, 1, 2019, SLASH_DATE_FORMAT)
    /\ today = [year |-> 2019, month |-> 4]
    /\ ret = Value(<<"1", "T", "2", "0", "1", "9">>)

\* The 1-based number of the trimester that contains month m.
TrimesterOf(m) == CHOOSE q \in 1..4 : m \in (3 * q - 2)..(3 * q)

\* C2 as claimed: the previous year is assigned if and only if n is greater than the
\* number of the trimester that contains the current date; the trimester containing
\* the current date gets the current year.
C2_AsClaimed ==
    (PeriodDone /\ args.invoice_type \in PurchasesTypes) =>
        \A n \in 1..4 :
            args.invoice_period = Label(n) =>
                /\ ret = Value(Label(n) \o IntToStr(curr_year - 1)) <=> n > TrimesterOf(curr_month)
                /\ ret = Value(Label(n) \o IntToStr(curr_year)) <=> n <= TrimesterOf(curr_month)

\* C2, amended: for a PURCHASES type and a label 'nT' with n in 1..4, the previous year
\* is assigned if and only if trimester n has not yet ended in the current year, i.e. n
\* is greater than or equal to the number of the trimester that contains the current
\* date; only a trimester that has ended gets the current year.
C2_PreviousYearUnlessTrimesterEnded ==
    (PeriodDone /\ args.invoice_type \in PurchasesTypes) =>
        \A n \in 1..4 :
            args.invoice_period = Label(n) =>
                /\ ret = Value(Label(n) \o IntToStr(curr_year - 1)) <=> n >= TrimesterOf(curr_month)
                /\ ret = Value(Label(n) \o IntToStr(curr_year)) <=> n < TrimesterOf(curr_month)

\* The trimester containing the current date gets the previous year.
C2_Witness ==
    /\ PeriodDone /\ args.invoice_type = "rectifica_compra" /\ ticks = 0
    /\ args.invoice_period = Label(2)
    /\ today = [year |-> 2019, month |-> 5]
    /\ ret = Value(<<"2", "T", "2", "0", "1", "8">>)

(***************************************************************************)
(* Properties of parse_money.                                              *)
(***************************************************************************)
MoneyDone == op = "parse_money" /\ pc = "done"

IsSeparator(c) == c \in {",", "."}

\* The text with every comma turned into a dot and every dot into a comma.
SwapSeparators(text) ==
    [i \in 1..Len(text) |-> IF text[i] = "," THEN "." ELSE IF text[i] = "." THEN "," ELSE text[i]]

\* C3: for every string made of digits, commas and dots, the string and the string
\* with commas and dots swapped give the same outcome, and so the same decimal value;
\* '158,000.157' and '158.000,157' both give 158000.157.
C3_SeparatorSwapInvariant ==
    (MoneyDone /\ args.money.type = "str") =>
        /\ (\A i \in 1..Len(args.money.text) :
                IsDigit(args.money.text[i]) \/ IsSeparator(args.money.text[i]))
               => /\ ret = parse_money(PyStr(SwapSeparators(args.money.text)))
                  /\ ret.kind = "value"
                        => DecEq(ret.val, parse_money(PyStr(SwapSeparators(args.money.text))).val)
        /\ args.money.text \in {<<"1", "5", "8", ",", "0", "0", "0", ".", "1", "5", "7">>, <<"1", "5", "8", ".", "0", "0", "0", ",", "1", "5", "7">>}
               => ret.kind = "value" /\ DecEq(ret.val, [coef |-> 158000157, exp |-> -3])

C3_Witness ==
    /\ MoneyDone
    /\ args.money = PyStr(<<"1", "5", "8", ".", "0", "0", "0", ",", "1", "5", "7">>)
    /\ ret = Value([coef |-> 158000157, exp |-> -3])

\* The longest leading run of digits, commas and dots of a text.
SeparatedRun(text) ==
    LET ok(i) == IsDigit(text[i]) \/ IsSeparator(text[i])
    IN SubSeq(text, 1, Cardinality({i \in 1..Len(text) : \A j \in 1..i : ok(j)}))

\* The digits of a run, in their order.
DigitsOfRun(run) == SelectSeq(run, IsDigit)

\* How many digits follow the last separator of a run (0 when it has none).
FractionLength(run) ==
    IF \E i \in 1..Len(run) : IsSeparator(run[i])
    THEN Len(run) - (CHOOSE i \in 1..Len(run) :
                         IsSeparator(run[i]) /\ \A j \in (i + 1)..Len(run) : IsDigit(run[j]))
    ELSE 0

\* The decimal the claim describes: all digits of the run, the last segment being the
\* fraction.
RunDecimal(run) == [coef |-> DigitsToNat(DigitsOfRun(run)), exp |-> -FractionLength(run)]

\* C4 as claimed: for a string that begins with a run of digits and separators, the
\* result is the decimal whose integer digits are all segments of the run but the last
\* and whose fractional digits are the last segment (the integer itself for one segment).
C4_AsClaimed ==
    (MoneyDone /\ args.money.type = "str" /\ SeparatedRun(args.money.text) # <<>>) =>
        ret = Value(RunDecimal(SeparatedRun(args.money.text)))

\* C4, amended: for a string whose longest leading run of digits and separators holds at
\* least one digit, the result is the decimal whose integer digits are all segments of
\* the run but the last and whose fractional digits are the last segment (the integer
\* itself for one segment), whatever follows the run: '10EUR' and '10' with a currency
\* sign give 10, '1,000' gives 1.000 and not one thousand.  A run of separators only
\* makes the call raise decimal.InvalidOperation.
C4_RunWithADigitIsParsed ==
    (MoneyDone /\ args.money.type = "str" /\ SeparatedRun(args.money.text) # <<>>) =>
        /\ DigitsOfRun(SeparatedRun(args.money.text)) # <<>>
               => ret = Value(RunDecimal(SeparatedRun(args.money.text)))
        /\ DigitsOfRun(SeparatedRun(args.money.text)) = <<>>
               => ret = Raise("InvalidOperation")
        /\ args.money.text \in {<<"1", "0", "E", "U", "R">>, <<"1", "0", "EUR_SIGN">>}
               => ret = Value([coef |-> 10, exp |-> 0])
        /\ args.money.text = <<"1", ",", "0", "0", "0">>
               => /\ ret = Value([coef |-> 1000, exp |-> -3])
                  /\ DecEq(ret.val, [coef |-> 1, exp |-> 0])
                  /\ ~DecEq(ret.val, [coef |-> 1000, exp |-> 0])

C4_Witness ==
    /\ MoneyDone
    /\ args.money = PyStr(<<"1", ",", "0", "0", "0">>)
    /\ ret = Value([coef |-> 1000, exp |-> -3])

(***************************************************************************)
(* Properties of parse_tax.                                                *)
(***************************************************************************)
TaxDone == op = "parse_tax" /\ pc = "done"

\* The other type of the same group.
SameGroupType(invoice_type) ==
    CASE invoice_type = "venta" -> "rectifica_venta"
      [] invoice_type = "rectifica_venta" -> "venta"
      [] invoice_type = "compra" -> "rectifica_compra"
      [] invoice_type = "rectifica_compra" -> "compra"

\* The table of a tax type and a group of invoice types.
TaxTable(tax_type, invoice_type) ==
    CASE tax_type = "IVA" /\ invoice_type \in SalesTypes -> IVA_SALES
      [] tax_type = "IVA" /\ invoice_type \in PurchasesTypes -> IVA_PURCHASES
      [] tax_type = "IRPF" /\ invoice_type \in SalesTypes -> IRPF_SALES
      [] tax_type = "IRPF" /\ invoice_type \in PurchasesTypes -> IRPF_PURCHASES

TaxCall(invoice_type, tax_type, tax_rate) ==
    args = [invoice_type |-> invoice_type, tax_type |-> tax_type, tax_rate |-> tax_rate]

\* C5: for an invoice type of SALES or PURCHASES, a tax type 'IVA' or 'IRPF' and a rate
\* that is a key of the table of (tax type, group), the result is the code the table
\* holds for that rate, and it is the result for the other type of the same group too.
C5_TableLookupByGroup ==
    TaxDone =>
        /\ (args.invoice_type \in SalesTypes \cup PurchasesTypes /\ args.tax_type \in {"IVA", "IRPF"})
               => /\ args.tax_rate \in DOMAIN TaxTable(args.tax_type, args.invoice_type)
                        => ret = Value(TaxTable(args.tax_type, args.invoice_type)[args.tax_rate])
                  /\ ret = parse_tax(SameGroupType(args.invoice_type), args.tax_type, args.tax_rate)
        /\ TaxCall("venta", "IVA", Pct(4, 0)) => ret = Value("IVAVENTASE4")
        /\ TaxCall("compra", "IVA", Pct(21, 0)) => ret = Value("IVACOMPRASE21")
        /\ TaxCall("venta", "IRPF", Pct(19, 5)) => ret = Value("IRPFCUENTA195A")
        /\ TaxCall("compra", "IRPF", Pct(15, 0)) => ret = Value("RETIRPF15")
        /\ TaxCall("rectifica_venta", "IVA", Pct(4, 0)) => ret = Value("IVAVENTASE4")
        /\ TaxCall("rectifica_compra", "IRPF", Pct(15, 0)) => ret = Value("RETIRPF15")

C5_Witness ==
    /\ TaxDone
    /\ TaxCall("rectifica_venta", "IRPF", Pct(19, 5))
    /\ ret = Value("IRPFCUENTA195A")

\* The rates that have a code, written out from the tables.
RatesWithCode(tax_type, invoice_type) ==
    CASE tax_type = "IVA" /\ invoice_type \in SalesTypes ->
             {Pct(0, 0), Pct(4, 0), Pct(10, 0), Pct(21, 0)}
      [] tax_type = "IVA" /\ invoice_type \in PurchasesTypes ->
             {Pct(0, 0), Pct(0, 5), Pct(1, 4), Pct(5, 2), Pct(4, 0), Pct(10, 0), Pct(21, 0)}
      [] tax_type = "IRPF" /\ invoice_type \in SalesTypes \cup PurchasesTypes ->
             {Pct(1, 0), Pct(2, 0), Pct(7, 0), Pct(15, 0), Pct(19, 0), Pct(19, 5),
              Pct(20, 0), Pct(21, 0)}
      [] OTHER -> {}

\* C6: parse_tax never raises, and it returns None for every combination that has no
\* table entry: a rate that is no key of the selected table, a tax type other than
\* 'IVA' and 'IRPF', an invoice type outside SALES and PURCHASES.
C6_NoEntryGivesNone ==
    TaxDone =>
        /\ ret.kind # "raise"
        /\ args.tax_rate \notin RatesWithCode(args.tax_type, args.invoice_type) => ret = None
        /\ args.tax_rate \in RatesWithCode(args.tax_type, args.invoice_type) => ret.kind = "value"
        /\ TaxCall("venta", "IVA", Pct(99, 0)) => ret = None
        /\ (args.invoice_type \in SalesTypes /\ args.tax_type = "IVA"
                /\ args.tax_rate \in {Pct(0, 5), Pct(1, 4), Pct(5, 2)}) => ret = None

C6_Witness ==
    /\ TaxDone
    /\ TaxCall("venta", "IVA", Pct(99, 0))
    /\ ret = None

(***************************************************************************)
(* More properties of parse_invoice_period.                                *)
(***************************************************************************)
\* The dates (day, month, year) the issue dates of the invocations are written from.
IssueDates ==
    (IssueDays \X IssueMonths \X IssueYears)
        \cup {<<25, 1, 2019>>, <<12, 5, 2015>>, <<10, 10, 2017>>, <<1, 1, 2019>>,
              <<29, 2, 2019>>, <<29, 2, 2020>>}

\* C7: for a SALES type, every label and every valid issue date written in the given
\* format, the result is the label followed by the year of the issue date, whether or
\* not the date lies in the labelled trimester.
C7_SalesYearOfIssueDate ==
    (PeriodDone /\ args.invoice_type \in SalesTypes) =>
        /\ \A date \in IssueDates :
               (/\ ValidDate(date[1], date[2], date[3])
                /\ args.issue_date = DateText(date[1], date[2], date[3], args.date_format))
                   => ret = Value(args.invoice_period \o IntToStr(date[3]))
        /\ (/\ args.invoice_period = Label(1)
            /\ args.issue_date = <<"2", "5", "/", "0", "1", "/", "2", "0", "1", "9">>
            /\ args.date_format = SLASH_DATE_FORMAT) => ret = Value(<<"1", "T", "2", "0", "1", "9">>)
        /\ (/\ args.invoice_period = Label(2)
            /\ args.issue_date = <<"1", "0", "/", "1", "0", "/", "2", "0", "1", "7">>
            /\ args.date_format = SLASH_DATE_FORMAT) => ret = Value(<<"2", "T", "2", "0", "1", "7">>)
        /\ (/\ args.issue_date = <<"5", "/", "3", "/", "2", "0", "1", "9">>
            /\ args.date_format = SLASH_DATE_FORMAT)
               => ret = Value(args.invoice_period \o <<"2", "0", "1", "9">>)

C7_Witness ==
    /\ PeriodDone /\ args.invoice_type = "rectifica_venta"
    /\ args.invoice_period = Label(2)
    /\ args.issue_date = <<"1", "0", "/", "1", "0", "/", "2", "0", "1", "7">>
    /\ args.date_format = SLASH_DATE_FORMAT
    /\ ret = Value(<<"2", "T", "2", "0", "1", "7">>)

\* C8: for an invoice type in neither SALES nor PURCHASES the result is None, whatever
\* the label, the issue date and the format are; nothing is raised (the issue date is
\* not parsed, the label is not converted) and the clock is not read.
C8_UnknownTypeGivesNone ==
    (op = "parse_invoice_period" /\ args.invoice_type \notin SalesTypes \cup PurchasesTypes) =>
        /\ curr_month = 0 /\ curr_year = 0
        /\ pc \in {"call", "done"}
        /\ pc = "done" => ret = None

\* An unknown type with an issue date that does not parse and a label that is no number.
C8_Witness ==
    /\ PeriodDone /\ args.invoice_type = "NONEXISTENT_TYPE"
    /\ args.invoice_period = <<"X", "T">>
    /\ args.issue_date = <<"n", "/", "a">>
    /\ strptime(args.issue_date, args.date_format) = Raise("ValueError")
    /\ ret = None

(***************************************************************************)
(* Properties of parse_country.                                            *)
(***************************************************************************)
CountryDone == op = "parse_country" /\ pc = "done"

\* C9: for every entry of the catalog, the entry's 3-letter code and no locale give the
\* entry's 2-letter code.
C9_Alpha3GivesAlpha2 ==
    CountryDone =>
        \A i \in 1..Len(countries) :
            (/\ args.country_text = countries[i].alpha_3
             /\ args.country_translation_languages = <<>>)
                => ret = Value(countries[i].alpha_2)

C9_Witness ==
    /\ CountryDone
    /\ args.country_text = <<"D", "E", "U">>
    /\ args.country_translation_languages = <<>>
    /\ ret = Value(<<"D", "E">>)

\* Two texts are the same but for the case of their letters.
SameIgnoringCase(a, b) == Upper(a) = Upper(b)

\* The entries the claim takes to match: by 3-letter code, by English name, or by the
\* name translated into one of the supplied locales.
ClaimedMatches(country_text, languages) ==
    {i \in 1..Len(countries) :
        \/ SameIgnoringCase(countries[i].alpha_3, country_text)
        \/ SameIgnoringCase(countries[i].name, country_text)
        \/ \E k \in 1..Len(languages) :
               /\ HasLocale(languages[k])
               /\ SameIgnoringCase(Gettext(languages[k], countries[i].name), country_text)}

CountryCall(country_text, languages) ==
    args = [country_text |-> country_text, country_translation_languages |-> languages]

\* C10: when the call returns, the result is the 2-letter code of an entry that matches
\* the input, ignoring letter case, by its 3-letter code, its English name or its name
\* translated into one of the supplied locales, and None when there is no such entry;
\* the outcome is the same for the input in upper and in lower case; a translated name
\* matches only with its locale supplied.
C10_MatchIgnoringCase ==
    CountryDone =>
        /\ ret.kind # "raise" =>
               LET hits == ClaimedMatches(args.country_text, args.country_translation_languages)
               IN /\ hits = {} <=> ret = None
                  /\ hits # {} => \E i \in hits : ret = Value(countries[i].alpha_2)
        /\ ret = parse_country(Upper(args.country_text), args.country_translation_languages)
        /\ ret = parse_country(Lower(args.country_text), args.country_translation_languages)
        /\ (\A k \in 1..Len(args.country_translation_languages) :
                HasLocale(args.country_translation_languages[k])) => ret.kind # "raise"
        /\ CountryCall(<<"G", "e", "r", "m", "a", "n", "y">>, <<>>) => ret = Value(<<"D", "E">>)
        /\ CountryCall(<<"A", "l", "e", "m", "a", "n", "i", "a">>, <<"es">>) => ret = Value(<<"D", "E">>)
        /\ CountryCall(<<"D", "e", "u", "t", "s", "c", "h", "l", "a", "n", "d">>, <<"de">>) => ret = Value(<<"D", "E">>)
        /\ CountryCall(<<"A", "l", "e", "m", "a", "n", "i", "a">>, <<>>) => ret = None
        /\ CountryCall(<<"A", "l", "e", "m", "a", "n", "i", "a">>, <<"de">>) => ret = None
        /\ CountryCall(<<"D", "e", "u", "t", "s", "c", "h", "l", "a", "n", "d">>, <<"es">>) => ret = None

C10_Witness ==
    /\ CountryDone
    /\ CountryCall(Upper(<<"A", "l", "e", "m", "a", "n", "i", "a">>), <<"de", "es">>)
    /\ ret = Value(<<"D", "E">>)

\* The entry that comes first in catalog iteration order among a set of entries.
FirstOf(hits) == CHOOSE i \in hits : \A j \in hits : i <= j

\* C11: when the call returns and several entries of the catalog match the input, the
\* result is the 2-letter code of the matching entry that comes first in the catalog.
C11_FirstMatchInCatalogOrder ==
    CountryDone =>
        LET hits == ClaimedMatches(args.country_text, args.country_translation_languages)
        IN (ret.kind # "raise" /\ Cardinality(hits) > 1)
               => ret = Value(countries[FirstOf(hits)].alpha_2)

\* 'Mexico' with locale gn matches Mexico by its English name and Malaysia by its gn
\* name.
C11_Witness ==
    /\ CountryDone
    /\ CountryCall(<<"M", "e", "x", "i", "c", "o">>, <<"gn">>)
    /\ ClaimedMatches(args.country_text, args.country_translation_languages) = {4, 5}
    /\ ret = Value(<<"M", "X">>)

\* The 2-letter codes of the catalog.
Alpha2Codes == {countries[i].alpha_2 : i \in 1..Len(countries)}

\* C12: for every input string and every list of locale codes the call returns the
\* 2-letter code of a catalog entry or None, and None without raising when no entry
\* matches.
C12_ReturnsCodeOrNone ==
    CountryDone =>
        /\ ret.kind # "raise"
        /\ ret = None \/ (ret.kind = "value" /\ ret.val \in Alpha2Codes)
        /\ ClaimedMatches(args.country_text, args.country_translation_languages) = {}
               => ret = None

\* The Python types parse_money takes for numbers (a bool is an int) and for strings.
NumberTypes == {"int", "bool", "float"}

\* C13: an argument that is neither a number nor a string gives None and no error; an
\* integer argument gives a decimal whose value is that integer.
C13_OtherTypesGiveNoneIntsTheirValue ==
    MoneyDone =>
        /\ args.money.type \notin NumberTypes \cup {"str"} => ret = None
        /\ args.money.type \in {"int", "bool"} =>
               /\ ret.kind = "value"
               /\ ret.val.exp >= 0
               /\ ret.val.coef * Pow10(ret.val.exp) = args.money.num

C13_Witness ==
    /\ MoneyDone
    /\ args.money = PyOther("Decimal")
    /\ ret = None

\* The text does not begin with a digit, a comma or a dot.
FailsExtraction(text) == text = <<>> \/ ~(IsDigit(text[1]) \/ IsSeparator(text[1]))

\* C14: a string that does not begin with a digit, a comma or a dot makes parse_money
\* raise; it returns neither None nor a decimal.
C14_NoLeadingRunRaises ==
    (MoneyDone /\ args.money.type = "str" /\ FailsExtraction(args.money.text))
        => ret = Raise("AttributeError")

C14_Witness ==
    /\ MoneyDone
    /\ args.money = PyStr(<<"-", "5">>)
    /\ ret.kind = "raise"

(***************************************************************************)
(* Properties of invocations side by side.                                 *)
(***************************************************************************)
ThreadDone(t) == threads[t].pc = "done"

SameCall(t, u) == threads[t].op = threads[u].op /\ threads[t].args = threads[u].args

ReadsClock(t) ==
    /\ threads[t].op = "parse_invoice_period"
    /\ threads[t].args.invoice_type \in PurchasesTypes

\* C15 as claimed: two invocations with equal arguments return equal results whenever
\* they are made.
C15_AsClaimed ==
    \A t, u \in DOMAIN threads :
        (ThreadDone(t) /\ ThreadDone(u) /\ SameCall(t, u))
            => threads[t].ret = threads[u].ret

\* C15: two invocations with equal arguments return equal results whenever they are made
\* and whatever runs beside them, except parse_invoice_period for a PURCHASES type, whose
\* two invocations return equal results when they read the same month and year off the
\* clock.
C15_DeterminedByArgumentsAndClock ==
    \A t, u \in DOMAIN threads :
        (ThreadDone(t) /\ ThreadDone(u) /\ SameCall(t, u))
            => \/ threads[t].ret = threads[u].ret
               \/ /\ ReadsClock(t)
                  /\ <<threads[t].curr_month, threads[t].curr_year>>
                         # <<threads[u].curr_month, threads[u].curr_year>>

\* Two invocations of parse_invoice_period for a SALES type with equal arguments have
\* returned the same at different dates, another operation beside them; two for a
\* PURCHASES type have not.
C15_Witness ==
    /\ \A t \in DOMAIN threads : ThreadDone(t)
    /\ threads # NoThreads
    /\ SameCall("a", "c")
    /\ threads["a"].op = "parse_invoice_period"
    /\ threads["a"].args.invoice_type = SALE
    /\ threads["b"].op = "parse_invoice_period"
    /\ threads["b"].args.invoice_type = PURCHASE
    /\ threads["a"].returned_at # threads["c"].returned_at
    /\ threads["a"].ret = threads["c"].ret

\* What an invocation returns when it runs alone with the clock at date.
RunAlone(o, a, date) ==
    CASE o = "parse_money" -> parse_money(a.money)
      [] o = "parse_tax" -> parse_tax(a.invoice_type, a.tax_type, a.tax_rate)
      [] o = "parse_country" -> parse_country(a.country_text, a.country_translation_languages)
      [] o = "parse_invoice_period" ->
             IF a.invoice_type \in SalesTypes
             THEN SalesPeriod(a.invoice_period, a.issue_date, a.date_format)
             ELSE IF a.invoice_type \in PurchasesTypes
             THEN PurchasesPeriod(a.invoice_period, date.month, date.year)
             ELSE None

\* C16: in every interleaving, an invocation that has run at one date has returned what
\* it returns when run alone on the same arguments at that date.
C16_ResultAsWhenRunAlone ==
    \A t \in DOMAIN threads :
        (ThreadDone(t) /\ threads[t].called_at = threads[t].returned_at)
            => threads[t].ret = RunAlone(threads[t].op, threads[t].args, threads[t].called_at)

\* A PURCHASES invocation has run in April between the two steps of another one that
\* started in March.
C16_Witness ==
    /\ threads # NoThreads
    /\ ReadsClock("a") /\ ReadsClock("b")
    /\ threads["a"].pc = "read_year"
    /\ threads["a"].called_at.month = 3
    /\ ThreadDone("b")
    /\ threads["b"].called_at.month = 4
    /\ threads["b"].returned_at = threads["b"].called_at
    /\ threads["b"].ret = Value(<<"1", "T">> \o IntToStr(FirstYear))

(***************************************************************************)
(* Properties of DynamoDBUtils.log and log_wrapper.                        *)
(***************************************************************************)
\* The positions in calls of the calls of api.
CallsOf(api) == {i \in 1..Len(calls) : calls[i].api = api}

\* The positions in calls of the DynamoDBUtils.log calls for a table and a key.
LogCallsFor(table_name, table_key) ==
    {i \in CallsOf("DynamoDBUtils.log") :
        /\ calls[i].params.table_name = table_name
        /\ calls[i].params.table_key = table_key}

\* C17: a call of obj.name wrapped once that has ended, when the original function
\* returns, has returned what the original function returns for the same argument and
\* has made exactly two DynamoDBUtils.log calls for the wrapper's table and key, a
\* request before the original function runs and a response after it.
C17_WrapperReturnsAndLogsTwice ==
    (op = "obj.name" /\ ret # Pending /\ args.top = 1
         /\ OriginalFunction(args.a).kind # "raise") =>
        LET logs == LogCallsFor(wrapped[1].table_name, wrapped[1].table_key)
        IN /\ ret = OriginalFunction(args.a)
           /\ Cardinality(logs) = 2
           /\ \E i, j \in logs, f \in CallsOf("func") :
                  /\ i < f /\ f < j
                  /\ calls[i].params.description
                         = PyText("function " \o ORIGINAL_NAME \o " request")
                  /\ calls[j].params.description
                         = PyText("function " \o ORIGINAL_NAME \o " response")

LogDone == op = "log"

AllPresent == Truthy(args.table_name) /\ Truthy(args.table_key) /\ Truthy(args.log_object)

\* The entry log asks the table to append.
LogEntry ==
    [datetime |-> DatetimeStr(today), description |-> args.description,
     log_object |-> StrOf(args.log_object)]

\* C18: log makes no update_item call, one logger.error call naming the three values and
\* returns when the table name, the key or the log object is missing or empty; with all
\* three present it makes exactly one update_item call on that table with Key
\* {'identifier': table_key} that appends one entry (datetime, description, str of the
\* log object) to log_messages.
C18_LogWritesOnlyWithAllThree ==
    LogDone =>
        /\ ret = None
        /\ ~AllPresent =>
               /\ CallsOf("update_item") = {}
               /\ Len(calls) = 1
               /\ calls[1].api = "logger.error"
               /\ calls[1].params.message =
                      "Database logging impossible due to None value, table name: "
                          \o args.table_name.text \o ", table key: " \o args.table_key.text
                          \o ", log_object: " \o args.log_object.text
        /\ AllPresent =>
               /\ Cardinality(CallsOf("update_item")) = 1
               /\ calls[1] =
                      [api |-> "update_item",
                       params |->
                           [table_name |-> args.table_name,
                            kwargs |->
                                [Key |-> [identifier |-> args.table_key],
                                 UpdateExpression |-> LOG_UPDATE_EXPRESSION,
                                 ExpressionAttributeValues |->
                                     [empty_list |-> <<>>, add_value |-> <<LogEntry>>]]]]
               /\ Len(calls) = 1 =>
                      LET id == <<args.table_name.text, args.table_key.text>>
                      IN /\ id \in DOMAIN items
                         /\ "log_messages" \in DOMAIN items[id]
                         /\ items[id]["log_messages"][Len(items[id]["log_messages"])]
                                = LogEntry

\* The log object is the empty dict: nothing is written.
C18_Witness ==
    /\ LogDone
    /\ args.table_name = PyText("table_name")
    /\ args.table_key = PyText("key")
    /\ args.log_object = PyDict("{}")
    /\ Len(calls) = 1
    /\ calls[1].api = "logger.error"
    /\ ret = None

(***************************************************************************)
(* Properties of the cron rule functions.                                  *)
(***************************************************************************)
\* The calls made on the CloudWatch Events and Lambda clients, in order: a sequence of
\* calls without those of the logger.
RECURSIVE ClientCalls(_)
ClientCalls(cs) ==
    IF cs = <<>> THEN <<>>
    ELSE IF Head(cs).api = "logger.info" THEN ClientCalls(Tail(cs))
    ELSE <<Head(cs)>> \o ClientCalls(Tail(cs))

ApisOf(cs) == [i \in 1..Len(cs) |-> cs[i].api]

\* The calls under way that have these arguments and have made these calls.
Under(arguments, made) ==
    {c \in DOMAIN running : running[c].args = arguments /\ running[c].calls = made}

CREATE_ORDER == <<"put_rule", "get_function", "put_targets", "add_permission">>

DELETE_ORDER == <<"list_targets_by_rule", "remove_targets", "delete_rule", "remove_permission">>

\* C19: every step of a call of create_cloud_watch_cron_rule has the call's client calls
\* be a beginning of put_rule, get_function, put_targets, add_permission.  put_rule is
\* called with a name 'Rule_' plus a hex id just drawn that no rule has, ENABLED, with
\* the given schedule expression and description, and adds that rule; put_targets adds
\* one target, with the rule name as Id, of that rule and with the ARN of the named
\* lambda; add_permission adds one permission, with a statement id
\* '<lambda_function>-stmt-id-' plus another hex id that no permission has and with the
\* ARN put_rule returned as source; the call then returns the rule name and the
\* statement id.
C19_CreateCallsInOrder ==
    [][op' = "create_cloud_watch_cron_rule" =>
          LET made == ClientCalls(calls')
              rule_name == made[1].params.Name
          IN /\ Len(made) \in 1..4
             /\ ApisOf(made) = SubSeq(CREATE_ORDER, 1, Len(made))
             /\ (Len(made) = 1 /\ ret' = Pending) =>
                    /\ uuids' = uuids + 1
                    /\ made[1].params =
                           [Name |-> "Rule_" \o Hex(uuids'),
                            ScheduleExpression |-> args'.cron_expression,
                            State |-> "ENABLED",
                            Description |-> args'.description]
                    /\ rule_name \notin {r.Name : r \in rules}
                    /\ rules' = rules \cup {made[1].params}
             /\ (Len(made) = 2 /\ ret' = Pending) =>
                    /\ uuids' = uuids + 1
                    /\ made[2].params = [FunctionName |-> args'.lambda_function]
             /\ (Len(made) = 3 /\ ret' = Pending) =>
                    /\ made[3].params.Rule = rule_name
                    /\ Len(made[3].params.Targets) = 1
                    /\ made[3].params.Targets[1].Id = rule_name
                    /\ made[3].params.Targets[1].Arn = FunctionArn(args'.lambda_function)
                    /\ \E t \in targets' :
                           /\ targets' \ targets = {t}
                           /\ t.Rule = rule_name /\ t.Id = rule_name
                           /\ t.Arn = FunctionArn(args'.lambda_function)
             /\ (ret'.kind = "value") =>
                    LET statement_id == ret'.val[2]
                    IN /\ ApisOf(made) = CREATE_ORDER
                       /\ ret'.val[1] = rule_name
                       /\ \E n \in 1..uuids' :
                              /\ statement_id
                                     = args'.lambda_function \o "-stmt-id-" \o Hex(n)
                              /\ rule_name # "Rule_" \o Hex(n)
                       /\ statement_id \notin {q.StatementId : q \in permissions}
                       /\ made[4].params.FunctionName = args'.lambda_function
                       /\ made[4].params.StatementId = statement_id
                       /\ made[4].params.SourceArn = RuleArn(rule_name)
                       /\ permissions' = permissions \cup {made[4].params}]_vars

\* A rule has been created, with the rule data attached, while another call drew the
\* two hex ids in between those of this call.
C19_Witness ==
    /\ op = "create_cloud_watch_cron_rule"
    /\ args.attach_rule_data
    /\ ret = Value(<<"Rule_" \o Hex(1), args.lambda_function \o "-stmt-id-" \o Hex(4)>>)
    /\ ApisOf(ClientCalls(calls)) = CREATE_ORDER
    /\ Cardinality(rules) = 3

\* C20: every step of a call of delete_cloud_watch_cron_rule with a rule name that is
\* not empty has the call's client calls be a beginning of list_targets_by_rule,
\* remove_targets, delete_rule, remove_permission: remove_targets is called with the
\* Ids of every target that was listed for the rule and removes them, delete_rule
\* removes the rule, remove_permission removes the permission with the given statement
\* id and function, and the call then returns; with an empty or missing rule name the
\* call returns having made no call, and rules, targets and permissions are as they
\* were.
C20_DeleteCallsInOrder ==
    [][op' = "delete_cloud_watch_cron_rule" =>
          LET made == ClientCalls(calls')
              name == args'.rule_name
          IN /\ ret' \in {Pending, None}
             /\ Truthy(name) =>
                    /\ Len(made) \in 1..4
                    /\ ApisOf(made) = SubSeq(DELETE_ORDER, 1, Len(made))
                    /\ (ret' = None) <=> (Len(made) = 4)
                    /\ made[1].params = [Rule |-> name]
                    /\ Len(made) = 1 =>
                           /\ \E c \in DOMAIN running' :
                                  /\ running'[c].calls = calls'
                                  /\ running'[c].vals["listed"] =
                                         {t.Id : t \in {u \in targets : u.Rule = name.text}}
                           /\ UNCHANGED <<rules, targets, permissions>>
                    /\ Len(made) = 2 =>
                           /\ \E c \in Under(args', SubSeq(calls', 1, 1)) :
                                  made[2].params = [Rule |-> name,
                                                    Ids |-> running[c].vals["listed"],
                                                    Force |-> TRUE]
                           /\ targets' = {t \in targets : ~(t.Rule = name.text
                                                            /\ t.Id \in made[2].params.Ids)}
                           /\ UNCHANGED <<rules, permissions>>
                    /\ Len(made) = 3 =>
                           /\ made[3].params = [Name |-> name, Force |-> TRUE]
                           /\ rules' = {r \in rules : r.Name # name.text}
                           /\ UNCHANGED <<targets, permissions>>
                    /\ Len(made) = 4 =>
                           /\ made[4].params = [FunctionName |-> args'.function_name,
                                                StatementId |-> args'.statement_id]
                           /\ permissions' =
                                  permissions \ {q \in permissions :
                                                    /\ q.FunctionName = args'.function_name
                                                    /\ q.StatementId = args'.statement_id}
                           /\ UNCHANGED <<rules, targets>>
             /\ ~Truthy(name) =>
                    /\ ret' = None
                    /\ calls' = <<>>
                    /\ UNCHANGED <<rules, targets, permissions>>]_vars

\* The rule with two targets has been deleted with its permission.
C20_Witness ==
    /\ op = "delete_cloud_watch_cron_rule"
    /\ args.rule_name = PyText(OTHER_RULE)
    /\ args.statement_id = OTHER_STATEMENT
    /\ args.function_name = "lambda_function"
    /\ ret = None
    /\ Len(calls) = 6
    /\ calls[2].params.Ids = {"id", "id2"}
    /\ rules = {} /\ targets = {} /\ permissions = {}

(***************************************************************************)
(* The two readings of the clock in the PURCHASES branch.                  *)
(***************************************************************************)
\* The date the clock showed k months before `date`.
MonthsBack(date, k) ==
    LET n == date.year * 12 + (date.month - 1) - k
    IN [year |-> n \div 12, month |-> (n % 12) + 1]

\* C21: in the PURCHASES branch the month behind the trimester index and the year used
\* for the result are those of one date that the clock showed during the call, also
\* when the clock advances during the call; month 12 of year y is never combined with
\* year y + 1 in a result.
C21_MonthAndYearOfOneDate ==
    (PeriodDone /\ args.invoice_type \in PurchasesTypes /\ ret.kind = "value") =>
        \E k \in 0..ticks :
            [year |-> curr_year, month |-> curr_month] = MonthsBack(today, k)

(***************************************************************************)
(* A failing table update inside DynamoDBUtils.log.                        *)
(***************************************************************************)
\* The arguments of the log call that has just been made make it reach the update, and
\* the update raises.
UpdateFails ==
    /\ op = "log"
    /\ AllPresent
    /\ StrOf(args.table_name) \notin Tables

\* C22: a log step whose update_item call raises returns None to the caller, leaves the
\* table as it was, and has made exactly one update_item call, then one
\* logger.exception call with the message of line 141, then one capture_exception call
\* with the exception that update_item raised.
C22_UpdateFailureNeverReachesCaller ==
    [][UpdateFails' =>
           /\ ret' = None
           /\ items' = items
           /\ ApisOf(calls') = <<"update_item", "logger.exception", "capture_exception">>
           /\ calls'[1].params.table_name = args'.table_name
           /\ calls'[2].params.message =
                  "Error logging event " \o args'.description.text
                      \o " to db, log object: " \o args'.log_object.text
           /\ calls'[3].params.exc = UpdateItemError(args'.table_name.text)]_vars

\* The table cannot be reached after an earlier entry was written: the exception is
\* handed to capture_exception and the call returns.
C22_Witness ==
    /\ UpdateFails
    /\ args.table_name = PyText("unreachable_table")
    /\ args.log_object = PyDict("{'a': 1}")
    /\ ret = None
    /\ Len(calls) = 3
    /\ calls[3] = [api |-> "capture_exception", params |-> [exc |-> "EndpointConnectionError"]]
    /\ <<"table_name", "key">> \in DOMAIN items

(***************************************************************************)
(* The round trip of create_cloud_watch_cron_rule and                      *)
(* delete_cloud_watch_cron_rule.                                           *)
(***************************************************************************)
\* C23: once a rule created by create_cloud_watch_cron_rule has been deleted by
\* delete_cloud_watch_cron_rule with the rule name and statement id that the create call
\* returned and with its lambda function, the rules, the targets and the permissions
\* are those from before the create call with the client calls of the other create and
\* delete calls made on them, whatever other calls were made in between; with none in
\* between they are those from before the create call.
C23_CreateThenDeleteIsRoundTrip ==
    tracked.state = "deleted" => World = shadow

\* The round trip of Rule_hex1 has just ended; in between another rule was created and
\* the rule that was there from the start was deleted.
C23_Witness ==
    /\ tracked.state = "deleted"
    /\ tracked.rule = "Rule_" \o Hex(1)
    /\ op = "delete_cloud_watch_cron_rule"
    /\ args.rule_name = PyText(tracked.rule)
    /\ args.statement_id = tracked.statement_id
    /\ {r.Name : r \in rules} = {"Rule_" \o Hex(3)}
    /\ Cardinality(targets) = 1
    /\ {q.StatementId : q \in permissions} = {"lambda_function-stmt-id-" \o Hex(4)}

(***************************************************************************)
(* What the result of parse_invoice_period depends on.                     *)
(***************************************************************************)
\* Two invocations of parse_invoice_period with the same label and invoice type.
SamePeriodAndType(t, u) ==
    /\ threads[t].op = "parse_invoice_period" /\ threads[u].op = "parse_invoice_period"
    /\ threads[t].args.invoice_period = threads[u].args.invoice_period
    /\ threads[t].args.invoice_type = threads[u].args.invoice_type

\* C24: two parse_invoice_period invocations with the same label and the same PURCHASES
\* type that read the same month and year off the clock return the same, whatever their
\* issue dates and date formats, and return a period, not an error, when the issue date
\* does not parse; two with the same label and the same SALES type, issue date and date
\* format return the same, whatever the dates they are made on.
C24_PeriodFrame ==
    \A t, u \in DOMAIN threads :
        (ThreadDone(t) /\ ThreadDone(u) /\ SamePeriodAndType(t, u)) =>
            /\ (/\ threads[t].args.invoice_type \in PurchasesTypes
                /\ threads[t].curr_month = threads[u].curr_month
                /\ threads[t].curr_year = threads[u].curr_year)
                   => /\ threads[t].ret = threads[u].ret
                      /\ threads[t].args.issue_date = UNPARSEABLE_DATE
                             => threads[t].ret.kind = "value"
            /\ (/\ threads[t].args.invoice_type \in SalesTypes
                /\ threads[t].args.issue_date = threads[u].args.issue_date
                /\ threads[t].args.date_format = threads[u].args.date_format)
                   => threads[t].ret = threads[u].ret

\* Two PURCHASES invocations for '1T' made in March 2018, one with an issue date that
\* parses and one with an issue date that does not, have returned '1T2017'; a SALES
\* invocation made the month after has returned '1T2019'.
C24_Witness ==
    /\ \A t \in {"a", "b", "c"} : ThreadDone(t) /\ threads[t].op = "parse_invoice_period"
                                               /\ threads[t].args.invoice_period = Label(1)
    /\ threads["a"].args.invoice_type = "compra"
    /\ threads["b"].args.invoice_type = "compra"
    /\ threads["a"].args.issue_date = DateText(25, 1, 2019, SLASH_DATE_FORMAT)
    /\ threads["b"].args.issue_date = UNPARSEABLE_DATE
    /\ threads["b"].args.date_format = DASH_DATE_FORMAT
    /\ threads["a"].returned_at = [year |-> 2018, month |-> 3]
    /\ threads["b"].returned_at = [year |-> 2018, month |-> 3]
    /\ threads["a"].ret = Value(<<"1", "T", "2", "0", "1", "7">>)
    /\ threads["b"].ret = Value(<<"1", "T", "2", "0", "1", "7">>)
    /\ threads["c"].args.invoice_type = "venta"
    /\ threads["c"].called_at = [year |-> 2018, month |-> 4]
    /\ threads["c"].ret = Value(<<"1", "T", "2", "0", "1", "9">>)

(***************************************************************************)
(* The codes of parse_tax tell the combinations apart.                     *)
(***************************************************************************)
\* The group of an invoice type: sales, purchases, or none.
GroupOf(invoice_type) ==
    IF invoice_type \in SalesTypes THEN "sales"
    ELSE IF invoice_type \in PurchasesTypes THEN "purchases"
    ELSE "none"

\* C25: a code returned by parse_tax is returned for no other tax type, no other group
\* of invoice types and no other rate: every combination for which parse_tax returns
\* the same code has the tax type, the group and the rate of the call.
C25_TaxCodeIdentifiesCombination ==
    (TaxDone /\ ret.kind = "value") =>
        \A invoice_type \in InvoiceTypeInputs, tax_type \in TaxTypeInputs,
           tax_rate \in TaxRateInputs :
            parse_tax(invoice_type, tax_type, tax_rate) = ret
                => /\ tax_type = args.tax_type
                   /\ GroupOf(invoice_type) = GroupOf(args.invoice_type)
                   /\ tax_rate = args.tax_rate

\* The rate 21 has a code in all four tables; the one returned is that of IRPF on
\* purchases.
C25_Witness ==
    /\ TaxDone
    /\ args = [invoice_type |-> "rectifica_compra", tax_type |-> "IRPF",
               tax_rate |-> Pct(21, 0)]
    /\ ret = Value("RETIRPF21")
    /\ \A table \in {IVA_SALES, IVA_PURCHASES, IRPF_SALES, IRPF_PURCHASES} :
           Pct(21, 0) \in DOMAIN table /\ DOMAIN table \subseteq TaxRateInputs

(***************************************************************************)
(* The groups of invoice types.                                            *)
(***************************************************************************)
\* The elements of a Python list or tuple.
Elements(lst) == {lst[i] : i \in 1..Len(lst)}

\* C26: InvoiceType.SALES and InvoiceType.PURCHASES are disjoint and together hold the
\* four types of InvoiceType.TYPES; for each of the four, parse_invoice_period takes the
\* SALES branch (the clock is not read) or the PURCHASES branch (the clock is read),
\* by the group of the type, and does not return None, and parse_tax for 'IVA' or
\* 'IRPF' returns what the table of the type's one group gives for the rate.
C26_SalesAndPurchasesPartitionTypes ==
    /\ Elements(SALES) \cap Elements(PURCHASES) = {}
    /\ Elements(SALES) \cup Elements(PURCHASES) = Elements(TYPES)
    /\ Cardinality(Elements(TYPES)) = 4
    /\ (PeriodDone /\ args.invoice_type \in Elements(TYPES)) =>
           /\ ret # None
           /\ curr_month = 0 <=> args.invoice_type \in SalesTypes
           /\ curr_month # 0 <=> args.invoice_type \in PurchasesTypes
    /\ (TaxDone /\ args.invoice_type \in Elements(TYPES) /\ args.tax_type \in {"IVA", "IRPF"}) =>
           /\ ret = Get(TaxTable(args.tax_type, args.invoice_type), args.tax_rate)
           /\ ret = None => args.tax_rate \notin DOMAIN TaxTable(args.tax_type, args.invoice_type)

\* A rectifying purchase has taken the PURCHASES branch of parse_invoice_period.
C26_Witness ==
    /\ PeriodDone
    /\ args.invoice_type = PURCHASE_RECTIFYING
    /\ args.invoice_period = Label(4)
    /\ curr_month = 11
    /\ ret = Value(Label(4) \o IntToStr(curr_year - 1))

====
